---------------------------- MODULE Spec2Model ----------------------------
(***************************************************************************)
(* kamaitachi: transcode planning and execution core.                      *)
(*                                                                         *)
(* Four state machines share this module:                                  *)
(*   Spec          the transcode run: file queue, run tasks, parser        *)
(*                 threads and the shared progress snapshot                *)
(*                 (src/src/ui/main_window.rs, src/src/app.rs)             *)
(*   SpecSnapshot  the progress snapshot driven through its own methods    *)
(*                 (src/src/app.rs)                                        *)
(*   SpecCompile   the command compiler applied to settings values         *)
(*                 (src/src/transcoder/job.rs, preset.rs, hwaccel.rs)      *)
(*   SpecClassify  the stderr classifier applied to engine stderr text     *)
(*                 (src/src/transcoder/error.rs)                           *)
(*                                                                         *)
(* Units.  Media time is given in milliseconds (an integer stands for the  *)
(* f64 seconds value time_ms / 1000); the snapshot keeps centiseconds and  *)
(* permyriads exactly as the AtomicU32 fields do.  The sample values are   *)
(* chosen so that every quotient computed in f32/f64 by the code is a      *)
(* dyadic rational, hence the integer arithmetic below is exact for them.  *)
(***************************************************************************)
EXTENDS Integers, Sequences, FiniteSets, TLC

VARIABLES
    ffmpeg_path,              \* AppState.ffmpeg_path: TRUE = Some(path)
    files,                    \* AppState.files: Vec<FileEntry>
    next_id,                  \* number of FileEntry values created so far
    selected_index,           \* FileList.selected_index (0 = None, i = Some(i-1))
    current_job,              \* AppState.current_job (0 = None, else the file id)
    progress_permyriad,       \* CurrentProgress.progress_permyriad
    elapsed_centisecs,        \* CurrentProgress.elapsed_centisecs
    remaining_centisecs,      \* CurrentProgress.remaining_centisecs
    total_duration_centisecs, \* CurrentProgress.total_duration_centisecs
    current_time_centisecs,   \* CurrentProgress.current_time_centisecs
    cancelled,                \* CurrentProgress.cancelled
    runs,                     \* the tasks spawned by start_transcode
    cancel_mid,               \* per run: queue position whose subprocess was
                              \* alive when cancel() was called (0 = none)
    settings,                 \* TranscodeJob.settings
    encoders,                 \* what the engine lists and can initialise
    overflow_checks,          \* the build's overflow-checks setting
    cmd,                      \* outcome of build_ffmpeg_args_with_path
    stderr,                   \* stderr text captured from the engine
    error,                    \* outcome of FfmpegError::parse
    engines,                  \* per engine path: what that engine lists and
                              \* can initialise, and whether the NVIDIA
                              \* driver is present
    AVAILABLE_ENCODERS,       \* the OnceLock: <<>> until set, then <<set>>
    fetches,                  \* runs of fetch_available_encoders so far
    calls,                    \* the callers of the encoder resolution
    metadata,                 \* VideoMetadata handed to the size estimator
    ratio,                    \* outcome of the size estimator
    timers                    \* which runs' progress-refresh loops are alive

snapshot_vars == <<progress_permyriad, elapsed_centisecs, remaining_centisecs,
                   total_duration_centisecs, current_time_centisecs, cancelled>>

queue_vars == <<ffmpeg_path, files, next_id, selected_index, current_job,
                runs, cancel_mid>>

compile_vars == <<settings, encoders, overflow_checks, cmd>>

classify_vars == <<stderr, error>>

resolve_vars == <<engines, AVAILABLE_ENCODERS, fetches, calls>>

estimate_vars == <<metadata, ratio>>

vars == <<queue_vars, snapshot_vars, compile_vars, classify_vars, resolve_vars,
          estimate_vars, timers>>

---------------------------------------------------------------------------
(* Bounds of the model *)

MaxFiles == 2      \* FileEntry values created in one behaviour
MaxRuns  == 2      \* invocations of start_transcode in one behaviour
MaxCallers == 2    \* callers of the encoder resolution in one behaviour

(* Sample inputs *)

\* metadata.duration of a probed file, in centiseconds (0 = None)
Durations == {0, 1600}

\* out_time values the engine may report, in milliseconds
TimeSamples == {8000, 16000}

\* readings of start_time.elapsed(), in centiseconds
ElapsedSamples == {0, 100}

RunIds == 1..MaxRuns

---------------------------------------------------------------------------
(* CurrentProgress (src/src/app.rs) *)

\* remaining_centisecs value that stands for None: the u32 0xFFFFFFFF.  The
\* model's integers are 32-bit signed, so it is written by its signed
\* reading; every other value of the field is >= 0
RemainingUnknown == -1

\* an f32/f64 value scaled to an integer, or NaN
Float(x) == [nan |-> FALSE, v |-> x]
NaN == [nan |-> TRUE, v |-> 0]

\* Rust `x as u32` for a float x already truncated toward zero: saturating
\* at 0, and 0 for NaN (the saturation at 0xFFFFFFFF lies above every value
\* the sample inputs produce)
F2U32(x) == IF x.nan \/ x.v < 0 THEN 0 ELSE x.v

\* truncation toward zero of a / b (b > 0), the integer part of the float
TruncDiv(a, b) == IF a >= 0 THEN a \div b ELSE -((-a) \div b)

Min(a, b) == IF a <= b THEN a ELSE b
Max(a, b) == IF a >= b THEN a ELSE b

\* f32::clamp(lo, hi): NaN stays NaN
Clamp(x, lo, hi) ==
    IF x.nan THEN x
    ELSE IF x.v < lo THEN Float(lo) ELSE IF x.v > hi THEN Float(hi) ELSE x

\* set_progress without the clamp
set_progress_unclamped(p10k) == F2U32(p10k)

\* set_progress(progress): the stored permyriad; p10k = progress * 10000
set_progress(p10k) == F2U32(Clamp(p10k, 0, 10000))

\* get_progress() * 10000
get_progress == progress_permyriad

\* set_current_time_secs / set_total_duration_secs / set_elapsed_secs:
\* (secs * 100.0) as u32, for secs = ms / 1000
SecsToCentisecs(ms) == F2U32(Float(TruncDiv(ms, 10)))

\* update_progress_from_time: the new permyriad for media time ms, given
\* the stored total; unchanged when the total is 0
progress_from_time(ms, total_cs, old) ==
    IF total_cs > 0
    THEN LET ratio10k == TruncDiv(ms * 1000, total_cs)   \* (t / total) * 10000
         IN  set_progress(Float(Min(ratio10k, 10000)))   \* .min(1.0)
    ELSE old

\* ProgressFilter::get_progress (src/src/transcoder/progress.rs), the
\* progress field * 10000: the time ratio when the total duration is known,
\* else the frame ratio when the total frame count is known, else 0.  The
\* current time is in milliseconds and the total duration in centiseconds,
\* as in progress_from_time
filter_progress(frames_processed, total_frames, current_time, total_duration) ==
    IF total_duration > 0
    THEN Min(TruncDiv(current_time * 1000, total_duration), 10000)
    ELSE IF total_frames > 0
         THEN Min(TruncDiv(frames_processed * 10000, total_frames), 10000)
         ELSE 0

\* the loop's remaining-time estimate, in centiseconds:
\* ((elapsed / progress) - elapsed).max(0.0), then set_remaining_secs
remaining_estimate(elapsed_cs, pm) ==
    F2U32(Float(Max(TruncDiv(elapsed_cs * 10000, pm) - elapsed_cs, 0)))

\* CurrentProgress::reset
Reset ==
    /\ progress_permyriad' = 0
    /\ elapsed_centisecs' = 0
    /\ remaining_centisecs' = RemainingUnknown
    /\ total_duration_centisecs' = 0
    /\ current_time_centisecs' = 0
    /\ cancelled' = FALSE

---------------------------------------------------------------------------
(* Queue and run tasks (src/src/ui/main_window.rs) *)

\* FfmpegProgressInfo::default(), as far as the media time goes: <<>> until
\* an out_time line is read, then <<time in ms>>
NoTime == <<>>

IdleRun == [pc |-> "idle", snap |-> <<>>, index |-> 0, result |-> "none",
            pending |-> NoTime]

\* FileStatus::Error carries a String: `message` names where it comes from
\* and is "" for the other statuses
FileEntry(id, d) ==
    [id |-> id, status |-> "Pending", message |-> "", duration |-> d]

\* files.get_mut(index) with index counted from 0
SetStatus(fs, index, st) ==
    IF index + 1 <= Len(fs)
    THEN [fs EXCEPT ![index + 1].status = st, ![index + 1].message = ""]
    ELSE fs

\* runs whose engine subprocess is alive
Procs == {r \in RunIds : runs[r].pc = "reading"}

\* runs whose task is inside start_transcode's loop
Loops == {r \in RunIds : runs[r].pc \notin {"idle", "done"}}

\* the snapshot entry a run is working on
CurFile(r) == runs[r].snap[runs[r].index + 1]

---------------------------------------------------------------------------
(* Main-thread handlers *)

\* AppState::add_files for one supported path whose probe reports duration d
AddFiles(d) ==
    /\ next_id < MaxFiles
    /\ next_id' = next_id + 1
    /\ files' = Append(files, FileEntry(next_id + 1, d))
    /\ UNCHANGED <<ffmpeg_path, selected_index, current_job, runs, cancel_mid,
                   snapshot_vars, compile_vars, classify_vars, resolve_vars,
                   estimate_vars, timers>>

\* FileList::render_file_row on_mouse_down
SelectRow(i) ==
    /\ i \in 1..Len(files)
    /\ selected_index' = i
    /\ UNCHANGED <<ffmpeg_path, files, next_id, current_job, runs, cancel_mid,
                   snapshot_vars, compile_vars, classify_vars, resolve_vars,
                   estimate_vars, timers>>

\* Vec::remove(index) for index < len, counted from 0
RemoveAt(fs, index) ==
    IF index + 1 <= Len(fs)
    THEN SubSeq(fs, 1, index) \o SubSeq(fs, index + 2, Len(fs))
    ELSE fs

\* FileList::remove_selected
RemoveSelected ==
    /\ selected_index # 0
    /\ files' = RemoveAt(files, selected_index - 1)
    /\ selected_index' = 0
    /\ UNCHANGED <<ffmpeg_path, next_id, current_job, runs, cancel_mid,
                   snapshot_vars, compile_vars, classify_vars, resolve_vars,
                   estimate_vars, timers>>

\* MainWindow::clear_queue (the button is disabled without files)
ClearQueue ==
    /\ Len(files) > 0
    /\ files' = <<>>
    /\ UNCHANGED <<ffmpeg_path, next_id, selected_index, current_job, runs,
                   cancel_mid, snapshot_vars, compile_vars, classify_vars, resolve_vars,
                   estimate_vars, timers>>

\* whether the start button and start_transcode accept a click now
start_enabled == ffmpeg_path /\ Len(files) > 0

\* MainWindow::start_transcode: the snapshot of the queue, the reset, the
\* spawn of the task and start_progress_timer
StartTranscode ==
    /\ start_enabled
    /\ \E r \in RunIds :
         /\ runs[r].pc = "idle"
         /\ \A q \in RunIds : q < r => runs[q].pc # "idle"
         /\ runs' = [runs EXCEPT ![r] =
                       [IdleRun EXCEPT !.pc = "spawned",
                                       !.snap = [k \in 1..Len(files) |->
                                                   [id |-> files[k].id,
                                                    duration |-> files[k].duration]]]]
         /\ timers' = [timers EXCEPT ![r] = TRUE]
    /\ Reset
    /\ UNCHANGED <<ffmpeg_path, files, next_id, selected_index, current_job,
                   cancel_mid, compile_vars, classify_vars, resolve_vars,
                   estimate_vars>>

\* ProgressView::cancel_transcode (the button exists while a job is set)
CancelTranscode ==
    /\ current_job # 0
    /\ cancelled' = TRUE
    /\ cancel_mid' = [r \in RunIds |->
                        IF r \in Procs /\ cancel_mid[r] = 0
                        THEN runs[r].index + 1
                        ELSE cancel_mid[r]]
    /\ UNCHANGED <<ffmpeg_path, files, next_id, selected_index, current_job,
                   runs, progress_permyriad, elapsed_centisecs,
                   remaining_centisecs, total_duration_centisecs,
                   current_time_centisecs, compile_vars, classify_vars, resolve_vars,
                   estimate_vars, timers>>

---------------------------------------------------------------------------
(* The task spawned by start_transcode *)

\* the status written for the outcome of the closure, when no cancel is seen
final_status(result) ==
    IF result = "ok" THEN "Completed" ELSE "Error"

\* the String of FileStatus::Error: parsed_error.format_user_message() for
\* a subprocess that exited without success, e.to_string() for a closure
\* that returned Err
error_message(result) ==
    CASE result = "fail"      -> "format_user_message"
      [] result = "spawn_err" -> "io::Error"
      [] OTHER                -> ""

\* files.get_mut(index) with the status chosen for the closure's result
SetFinalStatus(fs, index, result) ==
    IF index + 1 <= Len(fs)
    THEN [fs EXCEPT ![index + 1].status = final_status(result),
                    ![index + 1].message = error_message(result)]
    ELSE fs

\* one pass of the loop body up to the .await, run on the main thread in one
\* piece: the per-file reset, the Processing mark, current_job,
\* set_total_duration_secs, and the closure handed to the thread pool
LoopTop(r, index, fs) ==
    /\ progress_permyriad' = 0
    /\ elapsed_centisecs' = 0
    /\ remaining_centisecs' = RemainingUnknown
    /\ current_time_centisecs' = 0
    /\ cancelled' = FALSE
    /\ total_duration_centisecs' = F2U32(Float(runs[r].snap[index + 1].duration))
    /\ files' = SetStatus(fs, index, "Processing")
    /\ current_job' = runs[r].snap[index + 1].id
    /\ runs' = [runs EXCEPT ![r].pc = "launching", ![r].index = index,
                            ![r].result = "none", ![r].pending = NoTime]

\* the task is polled for the first time: the loop starts with index 0
RunBegin(r) ==
    /\ runs[r].pc = "spawned"
    /\ LoopTop(r, 0, files)
    /\ UNCHANGED <<ffmpeg_path, next_id, selected_index, cancel_mid,
                   compile_vars, classify_vars, resolve_vars,
                   estimate_vars, timers>>

\* the closure starts on a pool thread: Command::spawn succeeds or fails
SpawnChild(r, spawned) ==
    /\ runs[r].pc = "launching"
    /\ runs' = [runs EXCEPT
                  ![r].pc = IF spawned THEN "reading" ELSE "exited",
                  ![r].result = IF spawned THEN "none" ELSE "spawn_err"]
    /\ UNCHANGED <<ffmpeg_path, files, next_id, selected_index, current_job,
                   cancel_mid, snapshot_vars, compile_vars, classify_vars, resolve_vars,
                   estimate_vars, timers>>

\* the cancel check at the head of the loop over the child's lines
cancel_seen == cancelled

\* the parser gets a line while the flag is set: child.kill(), break,
\* wait_with_output; `status` is the exit status the wait reports
KillChild(r, status) ==
    /\ runs[r].pc = "reading"
    /\ cancel_seen
    /\ runs' = [runs EXCEPT ![r].pc = "exited", ![r].result = status,
                            ![r].pending = NoTime]
    /\ UNCHANGED <<ffmpeg_path, files, next_id, selected_index, current_job,
                   cancel_mid, snapshot_vars, compile_vars, classify_vars, resolve_vars,
                   estimate_vars, timers>>

\* a line that cannot be read (Err) or that completes nothing and carries no
\* time: nothing changes
SkipLine(r) ==
    /\ runs[r].pc = "reading"
    /\ ~cancel_seen
    /\ UNCHANGED vars

\* an out_time line: the pending record takes the media time t (ms)
TimeLine(r, t) ==
    /\ runs[r].pc = "reading"
    /\ ~cancel_seen
    /\ runs' = [runs EXCEPT ![r].pending = <<t>>]
    /\ UNCHANGED <<ffmpeg_path, files, next_id, selected_index, current_job,
                   cancel_mid, snapshot_vars, compile_vars, classify_vars, resolve_vars,
                   estimate_vars, timers>>

\* FfmpegProgressInfo::is_valid of the pending record
is_valid(pending) == Len(pending) > 0

\* whether the loop stores a remaining-time estimate for the fraction it
\* read (progress > 0.01)
eta_known(pm) == pm > 100

\* the handling of a completed record without the is_valid test: a record
\* without a time is taken as time 0
ProgressLine_unchecked(r, e) ==
    /\ runs[r].pc = "reading"
    /\ ~cancel_seen
    /\ LET t == IF is_valid(runs[r].pending) THEN runs[r].pending[1] ELSE 0
           progress == progress_from_time(t, total_duration_centisecs,
                                          progress_permyriad)
       IN  /\ current_time_centisecs' = SecsToCentisecs(t)
           /\ progress_permyriad' = progress
           /\ elapsed_centisecs' = F2U32(Float(e))
           /\ remaining_centisecs' =
                IF eta_known(progress)
                THEN remaining_estimate(e, progress)
                ELSE remaining_centisecs
    /\ runs' = [runs EXCEPT ![r].pending = NoTime]
    /\ UNCHANGED <<ffmpeg_path, files, next_id, selected_index, current_job,
                   cancel_mid, total_duration_centisecs, cancelled,
                   compile_vars, classify_vars, resolve_vars,
                   estimate_vars, timers>>

\* a progress=continue / progress=end line completes the record.  A valid
\* record: update_progress_from_time, get_progress, set_elapsed_secs and,
\* above the threshold, set_remaining_secs, with e the reading of the
\* clock.  The pending record is renewed either way.
ProgressLine(r, e) ==
    /\ runs[r].pc = "reading"
    /\ ~cancel_seen
    /\ IF is_valid(runs[r].pending)
       THEN LET progress == progress_from_time(runs[r].pending[1],
                                               total_duration_centisecs,
                                               progress_permyriad)
            IN  /\ current_time_centisecs' = SecsToCentisecs(runs[r].pending[1])
                /\ progress_permyriad' = progress
                /\ elapsed_centisecs' = F2U32(Float(e))
                /\ remaining_centisecs' =
                     IF eta_known(progress)
                     THEN remaining_estimate(e, progress)
                     ELSE remaining_centisecs
       ELSE UNCHANGED <<current_time_centisecs, progress_permyriad,
                        elapsed_centisecs, remaining_centisecs>>
    /\ runs' = [runs EXCEPT ![r].pending = NoTime]
    /\ UNCHANGED <<ffmpeg_path, files, next_id, selected_index, current_job,
                   cancel_mid, total_duration_centisecs, cancelled,
                   compile_vars, classify_vars, resolve_vars,
                   estimate_vars, timers>>

\* the child closes its output and exits by itself with `status`
ChildExit(r, status) ==
    /\ runs[r].pc = "reading"
    /\ runs' = [runs EXCEPT ![r].pc = "exited", ![r].result = status,
                            ![r].pending = NoTime]
    /\ UNCHANGED <<ffmpeg_path, files, next_id, selected_index, current_job,
                   cancel_mid, snapshot_vars, compile_vars, classify_vars, resolve_vars,
                   estimate_vars, timers>>

\* the check made on the closure's result before the status is chosen
result_cancelled == cancelled

\* the task resumes after the .await: the cancel check, the status of the
\* file at `index`, then either the next pass of the loop or its end
RunResult(r) ==
    /\ runs[r].pc = "exited"
    /\ IF result_cancelled
       THEN /\ files' = SetStatus(files, runs[r].index, "Cancelled")
            /\ current_job' = 0
            /\ runs' = [runs EXCEPT ![r].pc = "done", ![r].result = "none",
                                    ![r].snap = <<>>]
            /\ UNCHANGED snapshot_vars
       ELSE LET fs == SetFinalStatus(files, runs[r].index, runs[r].result)
            IN  IF runs[r].index + 1 < Len(runs[r].snap)
                THEN LoopTop(r, runs[r].index + 1, fs)
                ELSE /\ files' = fs
                     /\ current_job' = 0
                     /\ runs' = [runs EXCEPT ![r].pc = "done",
                                             ![r].result = "none",
                                             ![r].snap = <<>>]
                     /\ UNCHANGED snapshot_vars
    /\ UNCHANGED <<ffmpeg_path, next_id, selected_index, cancel_mid,
                   compile_vars, classify_vars, resolve_vars,
                   estimate_vars, timers>>

\* one iteration of start_progress_timer's loop after its 100 ms wait: with
\* a current job the window is notified, without one the loop ends
TimerTick(r) ==
    /\ timers[r]
    /\ timers' = [timers EXCEPT ![r] = current_job # 0]
    /\ UNCHANGED <<queue_vars, snapshot_vars, compile_vars, classify_vars,
                   resolve_vars, estimate_vars>>
---------------------------------------------------------------------------
(* The progress snapshot driven through its own methods (src/src/app.rs) *)

\* arguments of set_progress, times 10000
ProgressSamples == {NaN, Float(-5000), Float(0), Float(2500), Float(10000),
                    Float(15000)}

\* arguments of update_progress_from_time, in milliseconds
SnapTimeSamples == {-1000, 4000, 8000, 24000}

\* arguments of set_total_duration_secs, in centiseconds
SnapTotalSamples == {0, 1600}

\* arguments of set_elapsed_secs, in centiseconds
SnapElapsedSamples == {0, 150}

\* arguments of set_remaining_secs: <<>> is None, <<c>> is Some(c / 100)
SnapRemainingSamples == {<<>>, <<250>>}

\* CurrentProgress::set_progress
SetProgress(p) ==
    /\ progress_permyriad' = set_progress(p)
    /\ UNCHANGED <<queue_vars, elapsed_centisecs, remaining_centisecs,
                   total_duration_centisecs, current_time_centisecs,
                   cancelled, compile_vars, classify_vars, resolve_vars,
                   estimate_vars, timers>>

\* CurrentProgress::update_progress_from_time
UpdateProgressFromTime(t) ==
    /\ current_time_centisecs' = SecsToCentisecs(t)
    /\ progress_permyriad' =
         progress_from_time(t, total_duration_centisecs, progress_permyriad)
    /\ UNCHANGED <<queue_vars, elapsed_centisecs, remaining_centisecs,
                   total_duration_centisecs, cancelled, compile_vars,
                   classify_vars, resolve_vars,
                   estimate_vars, timers>>

\* CurrentProgress::set_total_duration_secs
SetTotalDurationSecs(d) ==
    /\ total_duration_centisecs' = F2U32(Float(d))
    /\ UNCHANGED <<queue_vars, progress_permyriad, elapsed_centisecs,
                   remaining_centisecs, current_time_centisecs, cancelled,
                   compile_vars, classify_vars, resolve_vars,
                   estimate_vars, timers>>

\* CurrentProgress::set_elapsed_secs
SetElapsedSecs(e) ==
    /\ elapsed_centisecs' = F2U32(Float(e))
    /\ UNCHANGED <<queue_vars, progress_permyriad, remaining_centisecs,
                   total_duration_centisecs, current_time_centisecs,
                   cancelled, compile_vars, classify_vars, resolve_vars,
                   estimate_vars, timers>>

\* CurrentProgress::set_remaining_secs
SetRemainingSecs(secs) ==
    /\ remaining_centisecs' =
         IF secs = <<>> THEN RemainingUnknown ELSE F2U32(Float(secs[1]))
    /\ UNCHANGED <<queue_vars, progress_permyriad, elapsed_centisecs,
                   total_duration_centisecs, current_time_centisecs,
                   cancelled, compile_vars, classify_vars, resolve_vars,
                   estimate_vars, timers>>

\* CurrentProgress::reset
ResetProgress ==
    /\ Reset
    /\ UNCHANGED <<queue_vars, compile_vars, classify_vars, resolve_vars,
                   estimate_vars, timers>>

\* CurrentProgress::cancel
Cancel ==
    /\ cancelled' = TRUE
    /\ UNCHANGED <<queue_vars, progress_permyriad, elapsed_centisecs,
                   remaining_centisecs, total_duration_centisecs,
                   current_time_centisecs, compile_vars, classify_vars, resolve_vars,
                   estimate_vars, timers>>

---------------------------------------------------------------------------
(* Settings (src/src/transcoder/preset.rs) *)

Resolution(mode, w, h) == [mode |-> mode, w |-> w, h |-> h]

\* TranscodeSettings::default()
DefaultSettings ==
    [container |-> "Mp4", video_codec |-> "H264",
     resolution |-> Resolution("Original", 0, 0), crf |-> 23,
     preset |-> "Medium", hwaccel |-> "Auto", audio_codec |-> "Aac",
     audio_bitrate |-> 192, output_suffix |-> "_transcoded",
     rate_control |-> "Crf", target_bitrate |-> 5000, max_bitrate |-> 10000,
     bframes |-> 3, ref_frames |-> 4, gop_size |-> 250, lookahead |-> 20,
     aq_mode |-> "Variance", aq_strength |-> 8,
     nvenc_tune |-> "HighQuality", nvenc_multipass |-> "Qres",
     nvenc_b_ref_mode |-> "Each",
     qsv_la_depth |-> 40, qsv_adaptive_i |-> TRUE, qsv_adaptive_b |-> TRUE,
     amf_usage |-> "Transcoding", amf_quality |-> "Balanced",
     x264_tune |-> "None", x264_profile |-> "High",
     vp9_tile_columns |-> 2, vp9_tile_rows |-> 1,
     vp9_frame_parallel |-> TRUE, vp9_auto_alt_ref |-> TRUE,
     vp9_lag_in_frames |-> 25,
     svtav1_film_grain |-> 0, svtav1_film_grain_denoise |-> FALSE,
     av1_tile_columns |-> 2, av1_tile_rows |-> 2]

\* a settings value with every optional encoder feature switched the other
\* way than in the default
BareSettings ==
    [DefaultSettings EXCEPT
       !.bframes = 0, !.ref_frames = 0, !.gop_size = 0, !.lookahead = 0,
       !.aq_mode = "None", !.qsv_la_depth = 0, !.qsv_adaptive_i = FALSE,
       !.qsv_adaptive_b = FALSE, !.x264_tune = "Grain",
       !.vp9_tile_columns = 0, !.vp9_tile_rows = 0,
       !.vp9_frame_parallel = FALSE, !.vp9_auto_alt_ref = FALSE,
       !.svtav1_film_grain = 8, !.svtav1_film_grain_denoise = TRUE,
       !.av1_tile_columns = 0, !.av1_tile_rows = 0, !.container = "Mkv"]

VideoCodecs == {"H264", "H265", "Vp9", "Av1"}
HwAccelTypes == {"Auto", "Nvenc", "Qsv", "Amf", "Software"}
RateControlModes == {"Crf", "Cbr", "Vbr", "Cqp"}
AudioCodecs == {"Copy", "Aac", "Mp3", "Flac"}
Resolutions == {Resolution("Original", 0, 0), Resolution("Uhd4K", 0, 0),
                Resolution("Fhd1080", 0, 0), Resolution("Hd720", 0, 0),
                Resolution("Sd480", 0, 0), Resolution("Custom", 640, 360)}

\* crf values tried, within u8
CrfSamples == {23, 253, 255}

\* the settings values the compiler is applied to
SettingsSamples ==
    {[b EXCEPT !.video_codec = vc, !.hwaccel = hw, !.resolution = res,
               !.rate_control = rc, !.crf = q, !.audio_codec = ac] :
        b \in {DefaultSettings, BareSettings}, vc \in VideoCodecs,
        hw \in HwAccelTypes, res \in Resolutions, rc \in RateControlModes,
        q \in CrfSamples, ac \in AudioCodecs}

\* extension giving "mp4" for every container
extension_mp4_only(container) == "mp4"

\* ContainerFormat::extension
extension(container) ==
    CASE container = "Mp4" -> "mp4"
      [] container = "Mkv" -> "mkv"

\* VideoCodec::encoder_name
encoder_name(video_codec, hwaccel) ==
    CASE video_codec = "H264" /\ hwaccel = "Nvenc" -> "h264_nvenc"
      [] video_codec = "H265" /\ hwaccel = "Nvenc" -> "hevc_nvenc"
      [] video_codec = "Av1"  /\ hwaccel = "Nvenc" -> "av1_nvenc"
      [] video_codec = "Vp9"  /\ hwaccel = "Nvenc" -> "libvpx-vp9"
      [] video_codec = "H264" /\ hwaccel = "Qsv" -> "h264_qsv"
      [] video_codec = "H265" /\ hwaccel = "Qsv" -> "hevc_qsv"
      [] video_codec = "Av1"  /\ hwaccel = "Qsv" -> "av1_qsv"
      [] video_codec = "Vp9"  /\ hwaccel = "Qsv" -> "vp9_qsv"
      [] video_codec = "H264" /\ hwaccel = "Amf" -> "h264_amf"
      [] video_codec = "H265" /\ hwaccel = "Amf" -> "hevc_amf"
      [] video_codec = "Av1"  /\ hwaccel = "Amf" -> "av1_amf"
      [] video_codec = "Vp9"  /\ hwaccel = "Amf" -> "libvpx-vp9"
      [] video_codec = "H264" /\ hwaccel \in {"Auto", "Software"} -> "libx264"
      [] video_codec = "H265" /\ hwaccel \in {"Auto", "Software"} -> "libx265"
      [] video_codec = "Vp9"  /\ hwaccel \in {"Auto", "Software"} -> "libvpx-vp9"
      [] video_codec = "Av1"  /\ hwaccel \in {"Auto", "Software"} -> "libsvtav1"

\* VideoResolution::dimensions with width and height exchanged
dimensions_swapped(resolution) ==
    CASE resolution.mode = "Original" -> <<0, 0>>
      [] resolution.mode = "Uhd4K"    -> <<2160, 3840>>
      [] resolution.mode = "Fhd1080"  -> <<1080, 1920>>
      [] resolution.mode = "Hd720"    -> <<720, 1280>>
      [] resolution.mode = "Sd480"    -> <<480, 854>>
      [] resolution.mode = "Custom"   -> <<resolution.h, resolution.w>>

\* VideoResolution::dimensions
dimensions(resolution) ==
    CASE resolution.mode = "Original" -> <<0, 0>>
      [] resolution.mode = "Uhd4K"    -> <<3840, 2160>>
      [] resolution.mode = "Fhd1080"  -> <<1920, 1080>>
      [] resolution.mode = "Hd720"    -> <<1280, 720>>
      [] resolution.mode = "Sd480"    -> <<854, 480>>
      [] resolution.mode = "Custom"   -> <<resolution.w, resolution.h>>

\* VideoPreset::ffmpeg_name
ffmpeg_name(preset) ==
    CASE preset = "Ultrafast" -> "ultrafast"
      [] preset = "Fast"      -> "fast"
      [] preset = "Medium"    -> "medium"
      [] preset = "Slow"      -> "slow"
      [] preset = "Veryslow"  -> "veryslow"

\* AqMode::ffmpeg_value
aq_mode_value(aq_mode) ==
    CASE aq_mode = "None"               -> 0
      [] aq_mode = "Variance"           -> 1
      [] aq_mode = "AutoVariance"       -> 2
      [] aq_mode = "AutoVarianceBiased" -> 3

\* NvencTune::ffmpeg_value
nvenc_tune_value(tune) ==
    CASE tune = "HighQuality"     -> "hq"
      [] tune = "LowLatency"      -> "ll"
      [] tune = "UltraLowLatency" -> "ull"
      [] tune = "Lossless"        -> "lossless"

\* NvencMultipass::ffmpeg_value
nvenc_multipass_value(multipass) ==
    CASE multipass = "Disabled" -> "disabled"
      [] multipass = "Qres"     -> "qres"
      [] multipass = "Fullres"  -> "fullres"

\* NvencBRefMode::ffmpeg_value
nvenc_b_ref_mode_value(mode) ==
    CASE mode = "Disabled" -> "disabled"
      [] mode = "Each"     -> "each"
      [] mode = "Middle"   -> "middle"

\* AmfUsage::ffmpeg_value
amf_usage_value(usage) ==
    CASE usage = "Transcoding"     -> "transcoding"
      [] usage = "UltraLowLatency" -> "ultralowlatency"
      [] usage = "LowLatency"      -> "lowlatency"
      [] usage = "Webcam"          -> "webcam"

\* AmfQuality::ffmpeg_value
amf_quality_value(quality) ==
    CASE quality = "Speed"    -> "speed"
      [] quality = "Balanced" -> "balanced"
      [] quality = "Quality"  -> "quality"

\* X264Tune::ffmpeg_value: <<>> is None, <<v>> is Some(v)
x264_tune_value(tune) ==
    CASE tune = "None"        -> <<>>
      [] tune = "Film"        -> <<"film">>
      [] tune = "Animation"   -> <<"animation">>
      [] tune = "Grain"       -> <<"grain">>
      [] tune = "StillImage"  -> <<"stillimage">>
      [] tune = "Psnr"        -> <<"psnr">>
      [] tune = "Ssim"        -> <<"ssim">>
      [] tune = "FastDecode"  -> <<"fastdecode">>
      [] tune = "ZeroLatency" -> <<"zerolatency">>

\* X264Profile::ffmpeg_value
x264_profile_value(profile) ==
    CASE profile = "Baseline" -> "baseline"
      [] profile = "Main"     -> "main"
      [] profile = "High"     -> "high"
      [] profile = "High10"   -> "high10"
      [] profile = "High444"  -> "high444"

---------------------------------------------------------------------------
(* Encoder availability (src/src/transcoder/hwaccel.rs) *)

known_software_encoders ==
    {"libx264", "libx265", "libvpx-vp9", "libsvtav1", "libaom-av1"}

HardwareEncoders ==
    {"h264_nvenc", "hevc_nvenc", "av1_nvenc", "h264_qsv", "hevc_qsv",
     "av1_qsv", "vp9_qsv", "h264_amf", "hevc_amf", "av1_amf"}

\* what the engine reports: the names `-encoders` lists, and the hardware
\* encoders whose one-frame trial run succeeds
EncoderSamples ==
    {[listed |-> known_software_encoders \cup HardwareEncoders,
      working |-> HardwareEncoders],
     [listed |-> known_software_encoders \cup HardwareEncoders,
      working |-> {}],
     [listed |-> known_software_encoders \ {"libsvtav1"}, working |-> {}],
     [listed |-> {}, working |-> {}]}

\* test_encoder_availability without the trial run: every listed encoder
\* passes
test_encoder_availability_listed_only(encoder, env) == encoder \in env.listed

\* HwAccelDetector::test_encoder_availability
test_encoder_availability(encoder, env) ==
    IF encoder \notin env.listed THEN FALSE
    ELSE IF encoder \in known_software_encoders THEN TRUE
    ELSE encoder \in env.working

\* get_fallback_encoders with the two AV1 candidates in the other order
get_fallback_encoders_aom_first(video_codec) ==
    CASE video_codec = "H264" -> <<"libx264">>
      [] video_codec = "H265" -> <<"libx265">>
      [] video_codec = "Vp9"  -> <<"libvpx-vp9">>
      [] video_codec = "Av1"  -> <<"libaom-av1", "libsvtav1">>

\* HwAccelDetector::get_fallback_encoders
get_fallback_encoders(video_codec) ==
    CASE video_codec = "H264" -> <<"libx264">>
      [] video_codec = "H265" -> <<"libx265">>
      [] video_codec = "Vp9"  -> <<"libvpx-vp9">>
      [] video_codec = "Av1"  -> <<"libsvtav1", "libaom-av1">>

\* HwAccelDetector::get_available_encoder
get_available_encoder(video_codec, hwaccel, env) ==
    LET preferred_encoder == encoder_name(video_codec, hwaccel)
        fallback_encoders == get_fallback_encoders(video_codec)
        usable == {i \in 1..Len(fallback_encoders) :
                     test_encoder_availability(fallback_encoders[i], env)}
    IN  IF test_encoder_availability(preferred_encoder, env)
        THEN [encoder |-> preferred_encoder, hwaccel |-> hwaccel]
        ELSE IF usable # {}
        THEN [encoder |-> fallback_encoders[CHOOSE i \in usable :
                                              \A j \in usable : i <= j],
              hwaccel |-> "Software"]
        ELSE [encoder |-> fallback_encoders[1], hwaccel |-> "Software"]

---------------------------------------------------------------------------
(* Command compiler (src/src/transcoder/job.rs) *)

U8Max == 255

\* u8/u32 .to_string()
Str(n) == ToString(n)

\* format!("{}k", n)
Kbps(n) == ToString(n) \o "k"

\* format!("{:.1}", n as f32 / 10.0)
Tenths(n) == ToString(n \div 10) \o "." \o ToString(n % 10)

\* Vec<String>::join(sep)
RECURSIVE Join(_, _)
Join(parts, sep) ==
    IF Len(parts) = 0 THEN ""
    ELSE IF Len(parts) = 1 THEN parts[1]
    ELSE parts[1] \o sep \o Join(Tail(parts), sep)

\* a path as its directory, file stem and extension
Path(dir, stem, ext) == [dir |-> dir, stem |-> stem, ext |-> ext]

\* PathBuf::to_string_lossy
to_string_lossy(path) == path.dir \o "/" \o path.stem \o "." \o path.ext

\* TranscodeJob::generate_output_path
generate_output_path(input_path, output_dir, suffix, s) ==
    Path(output_dir, input_path.stem \o suffix, extension(s.container))

\* TranscodeJob::add_hwaccel_args
add_hwaccel_args(hwaccel) ==
    CASE hwaccel = "Auto"     -> <<>>
      [] hwaccel = "Nvenc"    -> <<"-hwaccel", "cuda">>
      [] hwaccel = "Qsv"      -> <<"-hwaccel", "qsv">>
      [] hwaccel = "Amf"      -> <<"-hwaccel", "d3d11va">>
      [] hwaccel = "Software" -> <<>>

\* add_rate_control_args with the CBR ceiling taken from max_bitrate
add_rate_control_args_cbr_maxrate(s, hwaccel) ==
    CASE s.rate_control = "Crf" ->
           IF hwaccel \in {"Nvenc", "Qsv", "Amf"}
           THEN <<"-cq", Str(s.crf)>>
           ELSE <<"-crf", Str(s.crf)>>
      [] s.rate_control = "Cbr" ->
           <<"-b:v", Kbps(s.target_bitrate), "-maxrate", Kbps(s.max_bitrate),
             "-bufsize", Kbps(s.target_bitrate * 2)>>
      [] s.rate_control = "Vbr" ->
           <<"-b:v", Kbps(s.target_bitrate), "-maxrate", Kbps(s.max_bitrate),
             "-bufsize", Kbps(s.max_bitrate)>>
      [] s.rate_control = "Cqp" -> <<"-qp", Str(s.crf)>>

\* TranscodeJob::add_rate_control_args (target_bitrate * 2 stays within u32
\* for every target_bitrate the model's integers can hold)
add_rate_control_args(s, hwaccel) ==
    CASE s.rate_control = "Crf" ->
           IF hwaccel \in {"Nvenc", "Qsv", "Amf"}
           THEN <<"-cq", Str(s.crf)>>
           ELSE <<"-crf", Str(s.crf)>>
      [] s.rate_control = "Cbr" ->
           <<"-b:v", Kbps(s.target_bitrate), "-maxrate", Kbps(s.target_bitrate),
             "-bufsize", Kbps(s.target_bitrate * 2)>>
      [] s.rate_control = "Vbr" ->
           <<"-b:v", Kbps(s.target_bitrate), "-maxrate", Kbps(s.max_bitrate),
             "-bufsize", Kbps(s.max_bitrate)>>
      [] s.rate_control = "Cqp" -> <<"-qp", Str(s.crf)>>

\* TranscodeJob::add_nvenc_args
add_nvenc_args(s) ==
    <<"-tune", nvenc_tune_value(s.nvenc_tune)>>
    \o (CASE s.rate_control = "Crf" -> <<"-rc", "vbr", "-cq", Str(s.crf)>>
          [] s.rate_control = "Cbr" ->
               <<"-rc", "cbr", "-b:v", Kbps(s.target_bitrate)>>
          [] s.rate_control = "Vbr" ->
               <<"-rc", "vbr", "-b:v", Kbps(s.target_bitrate),
                 "-maxrate", Kbps(s.max_bitrate)>>
          [] s.rate_control = "Cqp" ->
               <<"-rc", "constqp", "-qp", Str(s.crf)>>)
    \o <<"-preset", CASE s.preset = "Ultrafast" -> "p1"
                      [] s.preset = "Fast"      -> "p3"
                      [] s.preset = "Medium"    -> "p4"
                      [] s.preset = "Slow"      -> "p6"
                      [] s.preset = "Veryslow"  -> "p7">>
    \o <<"-multipass", nvenc_multipass_value(s.nvenc_multipass)>>
    \o (IF s.bframes > 0
        THEN <<"-bf", Str(s.bframes),
               "-b_ref_mode", nvenc_b_ref_mode_value(s.nvenc_b_ref_mode)>>
        ELSE <<>>)
    \o (IF s.lookahead > 0 THEN <<"-rc-lookahead", Str(s.lookahead)>> ELSE <<>>)
    \o (IF s.aq_mode # "None"
        THEN <<"-spatial-aq", "1", "-aq-strength", Str(s.aq_strength)>>
        ELSE <<>>)

\* TranscodeJob::add_qsv_args
add_qsv_args(s) ==
    (CASE s.rate_control = "Crf" -> <<"-global_quality", Str(s.crf)>>
       [] s.rate_control = "Cbr" ->
            <<"-b:v", Kbps(s.target_bitrate), "-maxrate", Kbps(s.target_bitrate)>>
       [] s.rate_control = "Vbr" ->
            <<"-b:v", Kbps(s.target_bitrate), "-maxrate", Kbps(s.max_bitrate)>>
       [] s.rate_control = "Cqp" -> <<"-q", Str(s.crf)>>)
    \o <<"-preset", CASE s.preset = "Ultrafast" -> "veryfast"
                      [] s.preset = "Fast"      -> "faster"
                      [] s.preset = "Medium"    -> "medium"
                      [] s.preset = "Slow"      -> "slower"
                      [] s.preset = "Veryslow"  -> "veryslow">>
    \o (IF s.qsv_la_depth > 0
        THEN <<"-look_ahead", "1", "-look_ahead_depth", Str(s.qsv_la_depth)>>
        ELSE <<>>)
    \o (IF s.qsv_adaptive_i THEN <<"-adaptive_i", "1">> ELSE <<>>)
    \o (IF s.qsv_adaptive_b THEN <<"-adaptive_b", "1">> ELSE <<>>)
    \o (IF s.bframes > 0 THEN <<"-bf", Str(s.bframes)>> ELSE <<>>)
    \o (IF s.ref_frames > 0 THEN <<"-refs", Str(s.ref_frames)>> ELSE <<>>)

\* `self.settings.crf + 2` on u8 leaves the type's range
amf_qp_b_overflows(s) == s.rate_control = "Crf" /\ s.crf + 2 > U8Max

\* TranscodeJob::add_amf_args; the u8 sum wraps when it is not checked
add_amf_args(s) ==
    <<"-usage", amf_usage_value(s.amf_usage),
      "-quality", amf_quality_value(s.amf_quality)>>
    \o (CASE s.rate_control = "Crf" ->
               <<"-rc", "cqp", "-qp_i", Str(s.crf), "-qp_p", Str(s.crf),
                 "-qp_b", Str((s.crf + 2) % (U8Max + 1))>>
          [] s.rate_control = "Cbr" ->
               <<"-rc", "cbr", "-b:v", Kbps(s.target_bitrate)>>
          [] s.rate_control = "Vbr" ->
               <<"-rc", "vbr_peak", "-b:v", Kbps(s.target_bitrate),
                 "-maxrate", Kbps(s.max_bitrate)>>
          [] s.rate_control = "Cqp" ->
               <<"-rc", "cqp", "-qp_i", Str(s.crf), "-qp_p", Str(s.crf)>>)
    \o (IF s.bframes > 0 THEN <<"-bf", Str(s.bframes)>> ELSE <<>>)

\* TranscodeJob::add_x264_args
add_x264_args(s) ==
    <<"-profile:v", x264_profile_value(s.x264_profile)>>
    \o add_rate_control_args(s, "Software")
    \o <<"-preset", ffmpeg_name(s.preset)>>
    \o (IF x264_tune_value(s.x264_tune) # <<>>
        THEN <<"-tune", x264_tune_value(s.x264_tune)[1]>>
        ELSE <<>>)
    \o (IF s.bframes > 0 THEN <<"-bf", Str(s.bframes)>> ELSE <<>>)
    \o (IF s.ref_frames > 0 THEN <<"-refs", Str(s.ref_frames)>> ELSE <<>>)
    \o (IF s.aq_mode # "None"
        THEN <<"-aq-mode", Str(aq_mode_value(s.aq_mode)),
               "-aq-strength", Tenths(s.aq_strength)>>
        ELSE <<>>)
    \o (IF s.lookahead > 0 THEN <<"-rc-lookahead", Str(s.lookahead)>> ELSE <<>>)

\* TranscodeJob::add_x265_args
add_x265_args(s) ==
    LET tune == x264_tune_value(s.x264_tune)
        x265_params ==
            (IF s.bframes > 0 THEN <<"bframes=" \o Str(s.bframes)>> ELSE <<>>)
            \o (IF s.ref_frames > 0 THEN <<"ref=" \o Str(s.ref_frames)>> ELSE <<>>)
            \o (IF s.aq_mode # "None"
                THEN <<"aq-mode=" \o Str(aq_mode_value(s.aq_mode)),
                       "aq-strength=" \o Tenths(s.aq_strength)>>
                ELSE <<>>)
            \o (IF s.lookahead > 0
                THEN <<"rc-lookahead=" \o Str(s.lookahead)>>
                ELSE <<>>)
    IN  add_rate_control_args(s, "Software")
        \o <<"-preset", ffmpeg_name(s.preset)>>
        \o (IF tune # <<>> /\ tune[1] \in {"grain", "animation", "zerolatency",
                                          "fastdecode", "psnr", "ssim"}
            THEN <<"-tune", tune[1]>>
            ELSE <<>>)
        \o (IF x265_params # <<>>
            THEN <<"-x265-params", Join(x265_params, ":")>>
            ELSE <<>>)

\* TranscodeJob::add_vp9_args
add_vp9_args(s) ==
    (CASE s.rate_control \in {"Crf", "Cqp"} ->
            <<"-b:v", "0", "-crf", Str(s.crf)>>
       [] s.rate_control = "Cbr" ->
            <<"-b:v", Kbps(s.target_bitrate), "-minrate", Kbps(s.target_bitrate),
              "-maxrate", Kbps(s.target_bitrate)>>
       [] s.rate_control = "Vbr" ->
            <<"-b:v", Kbps(s.target_bitrate), "-maxrate", Kbps(s.max_bitrate)>>)
    \o <<"-cpu-used", CASE s.preset = "Ultrafast" -> "8"
                        [] s.preset = "Fast"      -> "6"
                        [] s.preset = "Medium"    -> "4"
                        [] s.preset = "Slow"      -> "2"
                        [] s.preset = "Veryslow"  -> "0">>
    \o <<"-deadline", "good", "-row-mt", "1">>
    \o (IF s.vp9_tile_columns > 0
        THEN <<"-tile-columns", Str(s.vp9_tile_columns)>> ELSE <<>>)
    \o (IF s.vp9_tile_rows > 0
        THEN <<"-tile-rows", Str(s.vp9_tile_rows)>> ELSE <<>>)
    \o (IF s.vp9_frame_parallel THEN <<"-frame-parallel", "1">> ELSE <<>>)
    \o (IF s.vp9_auto_alt_ref
        THEN <<"-auto-alt-ref", "1">>
             \o (IF s.vp9_lag_in_frames > 0
                 THEN <<"-lag-in-frames", Str(s.vp9_lag_in_frames)>>
                 ELSE <<>>)
        ELSE <<>>)

\* TranscodeJob::add_libaom_av1_args
add_libaom_av1_args(s) ==
    (CASE s.rate_control \in {"Crf", "Cqp"} -> <<"-crf", Str(s.crf)>>
       [] s.rate_control = "Cbr" -> <<"-b:v", Kbps(s.target_bitrate)>>
       [] s.rate_control = "Vbr" ->
            <<"-b:v", Kbps(s.target_bitrate), "-maxrate", Kbps(s.max_bitrate)>>)
    \o <<"-cpu-used", CASE s.preset = "Ultrafast" -> "8"
                        [] s.preset = "Fast"      -> "6"
                        [] s.preset = "Medium"    -> "4"
                        [] s.preset = "Slow"      -> "2"
                        [] s.preset = "Veryslow"  -> "1">>
    \o <<"-row-mt", "1">>
    \o <<"-tiles", Str(s.av1_tile_columns) \o "x" \o Str(s.av1_tile_rows)>>

\* TranscodeJob::add_svtav1_args
add_svtav1_args(s) ==
    (CASE s.rate_control \in {"Crf", "Cqp"} -> <<"-crf", Str(s.crf)>>
       [] s.rate_control = "Cbr" ->
            <<"-b:v", Kbps(s.target_bitrate), "-rc", "1">>
       [] s.rate_control = "Vbr" ->
            <<"-b:v", Kbps(s.target_bitrate), "-maxrate", Kbps(s.max_bitrate)>>)
    \o <<"-preset", CASE s.preset = "Ultrafast" -> "12"
                      [] s.preset = "Fast"      -> "10"
                      [] s.preset = "Medium"    -> "8"
                      [] s.preset = "Slow"      -> "5"
                      [] s.preset = "Veryslow"  -> "2">>
    \o (IF s.svtav1_film_grain > 0
        THEN <<"-svtav1-params",
               "film-grain=" \o Str(s.svtav1_film_grain)
                 \o (IF s.svtav1_film_grain_denoise
                     THEN ":film-grain-denoise=1" ELSE "")>>
        ELSE <<>>)
    \o (IF s.av1_tile_columns > 0 \/ s.av1_tile_rows > 0
        THEN <<"-tile_columns", Str(s.av1_tile_columns),
               "-tile_rows", Str(s.av1_tile_rows)>>
        ELSE <<>>)

\* the resolution part of add_video_args_with_encoder: format!("scale={}:{}")
scale_args(resolution) ==
    IF resolution.mode = "Custom"
    THEN <<"-vf", "scale=" \o Str(resolution.w) \o ":" \o Str(resolution.h)>>
    ELSE IF resolution.mode # "Original"
    THEN <<"-vf", "scale=" \o Str(dimensions(resolution)[1]) \o ":"
                           \o Str(dimensions(resolution)[2])>>
    ELSE <<>>

\* the encoder-specific part of add_video_args_with_encoder
encoder_args(s, encoder, hwaccel) ==
    CASE encoder \in {"h264_nvenc", "hevc_nvenc", "av1_nvenc"} -> add_nvenc_args(s)
      [] encoder \in {"h264_qsv", "hevc_qsv", "av1_qsv", "vp9_qsv"} -> add_qsv_args(s)
      [] encoder \in {"h264_amf", "hevc_amf", "av1_amf"} -> add_amf_args(s)
      [] encoder = "libx264" -> add_x264_args(s)
      [] encoder = "libx265" -> add_x265_args(s)
      [] encoder = "libvpx-vp9" -> add_vp9_args(s)
      [] encoder = "libaom-av1" -> add_libaom_av1_args(s)
      [] encoder = "libsvtav1" -> add_svtav1_args(s)
      [] OTHER -> add_rate_control_args(s, hwaccel)
                  \o <<"-preset", ffmpeg_name(s.preset)>>

\* TranscodeJob::add_video_args_with_encoder
add_video_args_with_encoder(s, encoder, hwaccel) ==
    <<"-c:v", encoder>>
    \o scale_args(s.resolution)
    \o encoder_args(s, encoder, hwaccel)
    \o (IF s.gop_size > 0 THEN <<"-g", Str(s.gop_size)>> ELSE <<>>)

\* TranscodeJob::add_audio_args
add_audio_args(s) ==
    CASE s.audio_codec = "Copy" -> <<"-c:a", "copy">>
      [] s.audio_codec = "Aac"  -> <<"-c:a", "aac", "-b:a", Kbps(s.audio_bitrate)>>
      [] s.audio_codec = "Mp3"  ->
           <<"-c:a", "libmp3lame", "-b:a", Kbps(s.audio_bitrate)>>
      [] s.audio_codec = "Flac" -> <<"-c:a", "flac">>

\* the argument list with the acceleration arguments placed after the input
ffmpeg_args_input_first(job, actual_encoder, actual_hwaccel) ==
    <<"-i", to_string_lossy(job.input_path)>>
    \o add_hwaccel_args(actual_hwaccel)
    \o add_video_args_with_encoder(job.settings, actual_encoder, actual_hwaccel)
    \o add_audio_args(job.settings)
    \o <<"-progress", "pipe:1", "-stats_period", "0.5", "-y">>
    \o <<to_string_lossy(job.output_path)>>

\* the argument list build_ffmpeg_args_with_path assembles for the encoder
\* and acceleration get_available_encoder chose
ffmpeg_args(job, actual_encoder, actual_hwaccel) ==
    add_hwaccel_args(actual_hwaccel)
    \o <<"-i", to_string_lossy(job.input_path)>>
    \o add_video_args_with_encoder(job.settings, actual_encoder, actual_hwaccel)
    \o add_audio_args(job.settings)
    \o <<"-progress", "pipe:1", "-stats_period", "0.5", "-y">>
    \o <<to_string_lossy(job.output_path)>>

\* whether an arithmetic overflow is met while the list is assembled
args_overflow(job, actual_encoder) ==
    actual_encoder \in {"h264_amf", "hevc_amf", "av1_amf"}
      /\ amf_qp_b_overflows(job.settings)

\* TranscodeJob::build_ffmpeg_args_with_path: a panic where an overflow is
\* met in a build that checks overflows, else the list
build_ffmpeg_args_with_path(job, env, checked) ==
    LET chosen == get_available_encoder(job.settings.video_codec,
                                        job.settings.hwaccel, env)
    IN  IF checked /\ args_overflow(job, chosen.encoder)
        THEN [state |-> "panic", args |-> <<>>]
        ELSE [state |-> "args",
              args |-> ffmpeg_args(job, chosen.encoder, chosen.hwaccel)]

\* the file the job is made for
InputPath == Path("/videos", "clip", "mkv")

\* TranscodeJob::new with the output path start_transcode generates
Job(s) ==
    [input_path |-> InputPath,
     output_path |-> generate_output_path(InputPath, InputPath.dir,
                                          s.output_suffix, s),
     settings |-> s]

NoCmd == [state |-> "none", args |-> <<>>]

\* the arguments are built for the job of the current settings
BuildFfmpegArgs ==
    /\ cmd = NoCmd
    /\ cmd' = build_ffmpeg_args_with_path(Job(settings), encoders,
                                          overflow_checks)
    /\ UNCHANGED <<queue_vars, snapshot_vars, settings, encoders,
                   overflow_checks, classify_vars, resolve_vars,
                   estimate_vars, timers>>

---------------------------------------------------------------------------
(* The stderr classifier (src/src/transcoder/error.rs) *)

\* lines of stderr text in one behaviour
MaxLines == 2

\* char::to_lowercase on the ASCII letters
lower_char(c) ==
    CASE c = "A" -> "a" [] c = "B" -> "b" [] c = "C" -> "c" [] c = "D" -> "d"
      [] c = "E" -> "e" [] c = "F" -> "f" [] c = "G" -> "g" [] c = "H" -> "h"
      [] c = "I" -> "i" [] c = "J" -> "j" [] c = "K" -> "k" [] c = "L" -> "l"
      [] c = "M" -> "m" [] c = "N" -> "n" [] c = "O" -> "o" [] c = "P" -> "p"
      [] c = "Q" -> "q" [] c = "R" -> "r" [] c = "S" -> "s" [] c = "T" -> "t"
      [] c = "U" -> "u" [] c = "V" -> "v" [] c = "W" -> "w" [] c = "X" -> "x"
      [] c = "Y" -> "y" [] c = "Z" -> "z" [] OTHER -> c

\* str::to_lowercase
RECURSIVE to_lowercase(_)
to_lowercase(s) ==
    IF s = "" THEN ""
    ELSE lower_char(SubSeq(s, 1, 1)) \o to_lowercase(SubSeq(s, 2, Len(s)))

\* str::contains(pat)
contains(s, pat) ==
    \E i \in 1..(Len(s) - Len(pat) + 1) : SubSeq(s, i, i + Len(pat) - 1) = pat

\* str::find(c) for a character c: the position of its first occurrence
\* counted from 1, 0 for None
find(s, c) ==
    LET hits == {i \in 1..Len(s) : SubSeq(s, i, i) = c}
    IN  IF hits = {} THEN 0 ELSE CHOOSE i \in hits : \A j \in hits : i <= j

\* a line of str::lines loses the "\r" before its "\n"
strip_cr(line) ==
    IF Len(line) > 0 /\ SubSeq(line, Len(line), Len(line)) = "\r"
    THEN SubSeq(line, 1, Len(line) - 1)
    ELSE line

\* str::lines: split at "\n"; a final "\n" opens no further line
RECURSIVE lines(_)
lines(s) ==
    IF s = "" THEN <<>>
    ELSE LET n == find(s, "\n")
         IN  IF n = 0 THEN <<s>>
             ELSE <<strip_cr(SubSeq(s, 1, n - 1))>> \o lines(SubSeq(s, n + 1, Len(s)))

is_whitespace(c) == c \in {" ", "\t", "\n", "\r"}

\* the leading run of `s` without whitespace
RECURSIVE word_end(_, _)
word_end(s, i) ==
    IF i > Len(s) \/ is_whitespace(SubSeq(s, i, i)) THEN i - 1
    ELSE word_end(s, i + 1)

\* str::split_whitespace
RECURSIVE split_whitespace(_)
split_whitespace(s) ==
    IF s = "" THEN <<>>
    ELSE IF is_whitespace(SubSeq(s, 1, 1))
    THEN split_whitespace(SubSeq(s, 2, Len(s)))
    ELSE LET e == word_end(s, 1)
         IN  <<SubSeq(s, 1, e)>> \o split_whitespace(SubSeq(s, e + 1, Len(s)))

is_quote(c) == c \in {"'", "\""}

\* str::trim_matches(|c| c == '\'' || c == '"')
RECURSIVE trim_matches(_)
trim_matches(w) ==
    IF w = "" THEN ""
    ELSE IF is_quote(SubSeq(w, 1, 1)) THEN trim_matches(SubSeq(w, 2, Len(w)))
    ELSE IF is_quote(SubSeq(w, Len(w), Len(w)))
    THEN trim_matches(SubSeq(w, 1, Len(w) - 1))
    ELSE w

\* line.find('\'') followed by line[start + 1..].find('\''): the text
\* between the first single quote and the next one; <<>> without such a pair
quoted(line) ==
    LET start == find(line, "'")
        rest == SubSeq(line, start + 1, Len(line))
        end == find(rest, "'")
    IN  IF start = 0 \/ end = 0 THEN <<>> ELSE <<SubSeq(rest, 1, end - 1)>>

\* the fixed text returned when no name is found (a Japanese word for
\* "unknown" in the source)
UnknownName == "<unknown-name>"

\* the fixed text of Unknown when no line qualifies
DefaultErrorLine == "<error during conversion>"

\* the fixed name extract_hwaccel_name falls back to
GenericHwAccelName == "<hardware acceleration>"

\* the word loop of extract_encoder_name over words[i..]: the word after
\* "encoder", trimmed of quotes, unless it is empty or "not"
RECURSIVE encoder_word(_, _)
encoder_word(words, i) ==
    IF i > Len(words) THEN <<>>
    ELSE IF to_lowercase(words[i]) = "encoder" /\ i + 1 <= Len(words)
            /\ trim_matches(words[i + 1]) # ""
            /\ trim_matches(words[i + 1]) # "not"
    THEN <<trim_matches(words[i + 1])>>
    ELSE encoder_word(words, i + 1)

\* the line loop of extract_encoder_name over ls[i..]
RECURSIVE encoder_in_lines(_, _)
encoder_in_lines(ls, i) ==
    IF i > Len(ls) THEN UnknownName
    ELSE IF ~contains(to_lowercase(ls[i]), "encoder")
    THEN encoder_in_lines(ls, i + 1)
    ELSE IF quoted(ls[i]) # <<>> THEN quoted(ls[i])[1]
    ELSE LET name == encoder_word(split_whitespace(ls[i]), 1)
         IN  IF name # <<>> THEN name[1] ELSE encoder_in_lines(ls, i + 1)

\* extract_encoder_name taking the last quoted word of the text instead of
\* the first line's
extract_encoder_name_last(text) ==
    LET ls == lines(text)
        named == {i \in 1..Len(ls) : quoted(ls[i]) # <<>>}
    IN  IF named = {} THEN UnknownName
        ELSE quoted(ls[CHOOSE i \in named : \A j \in named : j <= i])[1]

\* FfmpegError::extract_encoder_name
extract_encoder_name(text) == encoder_in_lines(lines(text), 1)

\* the line loop shared by extract_decoder_name and extract_option_name:
\* the first line containing `key` that has a quoted word
RECURSIVE quoted_in_lines(_, _, _)
quoted_in_lines(ls, i, key) ==
    IF i > Len(ls) THEN UnknownName
    ELSE IF contains(to_lowercase(ls[i]), key) /\ quoted(ls[i]) # <<>>
    THEN quoted(ls[i])[1]
    ELSE quoted_in_lines(ls, i + 1, key)

\* FfmpegError::extract_decoder_name
extract_decoder_name(text) == quoted_in_lines(lines(text), 1, "decoder")

\* FfmpegError::extract_option_name
extract_option_name(text) == quoted_in_lines(lines(text), 1, "option")

\* FfmpegError::extract_hwaccel_name
extract_hwaccel_name(text) ==
    LET lower == to_lowercase(text)
    IN  IF contains(lower, "h264_qsv") \/ contains(lower, "hevc_qsv")
           \/ contains(lower, "av1_qsv") \/ contains(lower, "vp9_qsv")
        THEN "Intel QSV"
        ELSE IF contains(lower, "h264_amf") \/ contains(lower, "hevc_amf")
                \/ contains(lower, "av1_amf")
        THEN "AMD AMF"
        ELSE IF contains(lower, "h264_nvenc") \/ contains(lower, "hevc_nvenc")
                \/ contains(lower, "av1_nvenc")
        THEN "NVIDIA NVENC"
        ELSE IF contains(lower, "qsv") \/ contains(lower, "quick sync")
                \/ contains(lower, "mfx")
        THEN "Intel QSV"
        ELSE IF contains(lower, "amf")
                \/ contains(lower, "advanced media framework")
        THEN "AMD AMF"
        ELSE IF contains(lower, "nvenc") \/ contains(lower, "cuda")
                \/ contains(lower, "nvcuda")
        THEN "NVIDIA NVENC"
        ELSE IF contains(lower, "vaapi") THEN "VAAPI"
        ELSE GenericHwAccelName

\* the filter of FfmpegError::unknown
is_error_line(line) ==
    LET lower == to_lowercase(line)
    IN  contains(lower, "error") \/ contains(lower, "failed")
        \/ contains(lower, "cannot") \/ contains(lower, "unable")

\* the line FfmpegError::unknown carries: the last line passing the filter
unknown_line(text) ==
    LET ls == lines(text)
        hits == {i \in 1..Len(ls) : is_error_line(ls[i])}
    IN  IF hits = {} THEN DefaultErrorLine
        ELSE ls[CHOOSE i \in hits : \A j \in hits : j <= i]

---------------------------------------------------------------------------
(* The conditions of FfmpegError::parse, on the lower-cased text *)

\* the failure verbs that go with an encoder identifier
encoder_failed(l) ==
    contains(l, "error") \/ contains(l, "failed") \/ contains(l, "not found")

is_encoder_not_supported(l) ==
    \/ contains(l, "unknown encoder")
    \/ contains(l, "encoder") /\ contains(l, "not found")
    \/ contains(l, "no such encoder")

is_qsv_error(l) ==
    \/ contains(l, "no qsv-supporting device")
    \/ contains(l, "device creation failed") /\ contains(l, "qsv")
    \/ contains(l, "mfx") /\ (contains(l, "error") \/ contains(l, "failed"))
    \/ contains(l, "h264_qsv") /\ encoder_failed(l)
    \/ contains(l, "hevc_qsv") /\ encoder_failed(l)
    \/ contains(l, "av1_qsv") /\ encoder_failed(l)
    \/ contains(l, "libmfx") /\ contains(l, "not found")
    \/ contains(l, "qsv") /\ contains(l, "init")

\* the NVENC check knowing only the encoder identifiers
is_nvenc_error_encoders_only(l) ==
    \/ contains(l, "h264_nvenc") /\ encoder_failed(l)
    \/ contains(l, "hevc_nvenc") /\ encoder_failed(l)

is_nvenc_error(l) ==
    \/ contains(l, "no nvenc capable devices found")
    \/ contains(l, "cannot load nvcuda.dll")
    \/ contains(l, "cannot load nvencodeapi")
    \/ contains(l, "h264_nvenc") /\ encoder_failed(l)
    \/ contains(l, "hevc_nvenc") /\ encoder_failed(l)

is_amf_error(l) ==
    \/ contains(l, "amf failed")
    \/ contains(l, "no amf capable device")
    \/ contains(l, "h264_amf") /\ encoder_failed(l)
    \/ contains(l, "hevc_amf") /\ encoder_failed(l)

is_hwaccel_error(l) ==
    /\ \/ contains(l, "nvenc") \/ contains(l, "qsv") \/ contains(l, "amf")
       \/ contains(l, "cuda") \/ contains(l, "d3d11") \/ contains(l, "vaapi")
    /\ \/ contains(l, "cannot load") \/ contains(l, "failed to")
       \/ contains(l, "not found") \/ contains(l, "unavailable")
       \/ contains(l, "no capable devices")

is_decoder_not_supported(l) ==
    \/ contains(l, "decoder") /\ contains(l, "not found")
    \/ contains(l, "unknown decoder")

is_input_not_found(l) ==
    \/ contains(l, "no such file")
    \/ contains(l, "does not exist")
    \/ contains(l, "file not found")

is_input_corrupted(l) ==
    \/ contains(l, "invalid data found")
    \/ contains(l, "corrupt")
    \/ contains(l, "moov atom not found")
    \/ contains(l, "end of file") /\ contains(l, "invalid")

is_permission_denied(l) ==
    contains(l, "permission denied") \/ contains(l, "access denied")

is_disk_full(l) ==
    \/ contains(l, "no space left")
    \/ contains(l, "disk full")
    \/ contains(l, "not enough space")

is_output_write_error(l) ==
    contains(l, "cannot open") /\ (contains(l, "output") \/ contains(l, "writing"))

is_out_of_memory(l) ==
    \/ contains(l, "out of memory")
    \/ contains(l, "memory allocation failed")
    \/ contains(l, "cannot allocate")

is_invalid_codec_option(l) ==
    \/ contains(l, "option") /\ contains(l, "not found")
    \/ contains(l, "unrecognized option")
    \/ contains(l, "invalid option")

\* an FfmpegError: the kind with its String (payload), whether a suggestion
\* is attached, and the raw text
FfmpegError(kind, payload, suggestion, raw) ==
    [kind |-> kind, payload |-> payload, suggestion |-> suggestion,
     raw_message |-> raw]

\* the checks after the vendor checks, with the permission check made
\* before the input checks
parse_rest_permission_first(text, l) ==
    IF is_hwaccel_error(l)
    THEN FfmpegError("HwAccelNotAvailable", extract_hwaccel_name(text), TRUE, text)
    ELSE IF is_decoder_not_supported(l)
    THEN FfmpegError("DecoderNotSupported", extract_decoder_name(text), TRUE, text)
    ELSE IF is_permission_denied(l)
    THEN FfmpegError("PermissionDenied", "", TRUE, text)
    ELSE IF is_input_not_found(l)
    THEN FfmpegError("InputNotFound", "", TRUE, text)
    ELSE IF is_input_corrupted(l)
    THEN FfmpegError("InputCorrupted", "", TRUE, text)
    ELSE IF is_disk_full(l)
    THEN FfmpegError("DiskFull", "", TRUE, text)
    ELSE IF is_output_write_error(l)
    THEN FfmpegError("OutputWriteError", "", TRUE, text)
    ELSE IF is_out_of_memory(l)
    THEN FfmpegError("OutOfMemory", "", TRUE, text)
    ELSE IF is_invalid_codec_option(l)
    THEN FfmpegError("InvalidCodecOption", extract_option_name(text), TRUE, text)
    ELSE FfmpegError("Unknown", unknown_line(text), FALSE, text)

\* the checks that follow the encoder and vendor checks in parse
parse_rest(text, l) ==
    IF is_hwaccel_error(l)
    THEN FfmpegError("HwAccelNotAvailable", extract_hwaccel_name(text), TRUE, text)
    ELSE IF is_decoder_not_supported(l)
    THEN FfmpegError("DecoderNotSupported", extract_decoder_name(text), TRUE, text)
    ELSE IF is_input_not_found(l)
    THEN FfmpegError("InputNotFound", "", TRUE, text)
    ELSE IF is_input_corrupted(l)
    THEN FfmpegError("InputCorrupted", "", TRUE, text)
    ELSE IF is_permission_denied(l)
    THEN FfmpegError("PermissionDenied", "", TRUE, text)
    ELSE IF is_disk_full(l)
    THEN FfmpegError("DiskFull", "", TRUE, text)
    ELSE IF is_output_write_error(l)
    THEN FfmpegError("OutputWriteError", "", TRUE, text)
    ELSE IF is_out_of_memory(l)
    THEN FfmpegError("OutOfMemory", "", TRUE, text)
    ELSE IF is_invalid_codec_option(l)
    THEN FfmpegError("InvalidCodecOption", extract_option_name(text), TRUE, text)
    ELSE FfmpegError("Unknown", unknown_line(text), FALSE, text)

\* the vendor checks of parse, in their order
parse_vendor(text, l) ==
    IF is_qsv_error(l)
    THEN FfmpegError("HwAccelNotAvailable", "Intel QSV", TRUE, text)
    ELSE IF is_nvenc_error(l)
    THEN FfmpegError("HwAccelNotAvailable", "NVIDIA NVENC", TRUE, text)
    ELSE FfmpegError("HwAccelNotAvailable", "AMD AMF", TRUE, text)

is_vendor_error(l) == is_qsv_error(l) \/ is_nvenc_error(l) \/ is_amf_error(l)

\* parse with the vendor and generic hardware checks made before the
\* encoder check
parse_hardware_first(text) ==
    LET l == to_lowercase(text)
    IN  IF is_vendor_error(l) THEN parse_vendor(text, l)
        ELSE IF is_hwaccel_error(l)
        THEN FfmpegError("HwAccelNotAvailable", extract_hwaccel_name(text), TRUE, text)
        ELSE IF is_encoder_not_supported(l)
        THEN FfmpegError("EncoderNotSupported", extract_encoder_name(text), TRUE, text)
        ELSE parse_rest(text, l)

\* FfmpegError::parse
parse(text) ==
    LET l == to_lowercase(text)
    IN  IF is_encoder_not_supported(l)
        THEN FfmpegError("EncoderNotSupported", extract_encoder_name(text),
                         TRUE, text)
        ELSE IF is_vendor_error(l) THEN parse_vendor(text, l)
        ELSE parse_rest(text, l)

---------------------------------------------------------------------------
(* The classifier applied to what the engine wrote on its standard error *)

\* lines the engine may write
StderrLines ==
    {"Unknown encoder 'h264_nvenc'",
     "Error selecting an encoder",
     "Error opening output files: Encoder not found",
     "Cannot load nvcuda.dll",
     "Cannot load nvEncodeAPI64.dll",
     "No NVENC capable devices found",
     "Error creating a MFX session",
     "AMF failed to initialise",
     "Failed to create D3D11 device",
     "Unknown decoder 'hevc_cuvid'",
     "No such file or directory",
     "Input file not found",
     "Path does not exist",
     "Invalid data found when processing input",
     "Permission denied",
     "Access denied",
     "No space left on device",
     "Conversion failed!"}

\* no FfmpegError yet
NoError == FfmpegError("none", "", FALSE, "")

\* the engine writes one more line; wait_with_output collects it
EngineStderr(line) ==
    /\ error = NoError
    /\ Len(lines(stderr)) < MaxLines
    /\ stderr' = IF stderr = "" THEN line ELSE stderr \o "\n" \o line
    /\ UNCHANGED <<error, queue_vars, snapshot_vars, compile_vars,
                   resolve_vars,
                   estimate_vars, timers>>

\* the engine has exited without success: FfmpegError::parse(&stderr)
ParseStderr ==
    /\ error = NoError
    /\ error' = parse(stderr)
    /\ UNCHANGED <<stderr, queue_vars, snapshot_vars, compile_vars,
                   resolve_vars,
                   estimate_vars, timers>>
---------------------------------------------------------------------------
(* Acceleration detection and the cached encoder list
   (src/src/transcoder/hwaccel.rs) *)

\* the engines a caller may name: None stands for the "ffmpeg" found on the
\* PATH, Some(path) for the engine the application downloaded
EnginePaths == {"ffmpeg", "downloaded"}

\* what an engine reports on this machine: whether the NVIDIA driver answers,
\* the names `-encoders` lists, and the hardware encoders whose one-frame
\* trial run succeeds
EngineSamples ==
    {[nvidia |-> TRUE,
      listed |-> known_software_encoders \cup HardwareEncoders,
      working |-> HardwareEncoders],
     [nvidia |-> TRUE,
      listed |-> known_software_encoders \cup HardwareEncoders,
      working |-> {"h264_qsv", "hevc_qsv", "av1_qsv", "vp9_qsv",
                   "h264_amf", "hevc_amf", "av1_amf"}],
     [nvidia |-> FALSE,
      listed |-> known_software_encoders \cup HardwareEncoders,
      working |-> {"h264_amf", "hevc_amf", "av1_amf"}],
     [nvidia |-> FALSE,
      listed |-> known_software_encoders \ {"libsvtav1"},
      working |-> {}],
     [nvidia |-> FALSE, listed |-> {}, working |-> {}]}

Callers == 1..MaxCallers

\* HwAccelDetector::check_encoder_available: the name occurs in the output
\* of `-encoders`, which is run anew at every call
check_encoder_available(encoder, env) == encoder \in env.listed

\* HwAccelDetector::detect_nvenc
detect_nvenc(env) ==
    IF env.nvidia THEN check_encoder_available("h264_nvenc", env) ELSE FALSE

\* HwAccelDetector::detect_qsv
detect_qsv(env) == check_encoder_available("h264_qsv", env)

\* HwAccelDetector::detect_amf
detect_amf(env) == check_encoder_available("h264_amf", env)

\* HwAccelDetector::detect
detect(env) ==
    LET available ==
            (IF detect_nvenc(env) THEN <<"Nvenc">> ELSE <<>>)
            \o (IF detect_qsv(env) THEN <<"Qsv">> ELSE <<>>)
            \o (IF detect_amf(env) THEN <<"Amf">> ELSE <<>>)
            \o <<"Software">>
        has(t) == \E i \in 1..Len(available) : available[i] = t
    IN  [available |-> available,
         recommended |-> IF has("Nvenc") THEN "Nvenc"
                         ELSE IF has("Qsv") THEN "Qsv"
                         ELSE IF has("Amf") THEN "Amf"
                         ELSE "Software"]

\* HwAccelDetector::resolve_auto
resolve_auto(hwaccel, env) ==
    IF hwaccel # "Auto" THEN hwaccel ELSE detect(env).recommended

\* HwAccelDetector::fetch_available_encoders: the names of the video
\* encoder lines of `-encoders`
fetch_available_encoders(env) == env.listed

\* OnceLock::get_or_init without a second initialiser being held back
get_or_init_unsynchronised(cell, initializing) ==
    IF cell # <<>> THEN "ready" ELSE "init"

\* AVAILABLE_ENCODERS.get_or_init, as seen by a caller: the value is there,
\* or the caller runs the initialiser, or it blocks until the caller that
\* runs the initialiser has stored the value
get_or_init(cell, initializing) ==
    IF cell # <<>> THEN "ready"
    ELSE IF initializing THEN "wait"
    ELSE "init"

NoEncoder == [encoder |-> "", hwaccel |-> ""]

IdleCall == [pc |-> "idle", video_codec |-> "", hwaccel |-> "", resolved |-> "",
             path |-> "", seen |-> {}, result |-> NoEncoder]

\* get_available_encoder for a caller that got the set `cached` from
\* get_available_encoders: membership is tested in that set, the trial run
\* is made with the engine the caller named
Returned(call, cached) ==
    [call EXCEPT
       !.pc = "done",
       !.seen = cached,
       !.result = get_available_encoder(
                      call.video_codec, call.resolved,
                      [listed |-> cached,
                       working |-> engines[call.path].working])]

\* start_transcode's resolution for one job: resolve_auto with the engine
\* path, then build_ffmpeg_args_with_path -> get_available_encoder, whose
\* first step is get_available_encoders
Call(c, video_codec, hwaccel, path) ==
    /\ calls[c].pc = "idle"
    /\ LET entered == [IdleCall EXCEPT
                         !.video_codec = video_codec,
                         !.hwaccel = hwaccel,
                         !.resolved = resolve_auto(hwaccel, engines[path]),
                         !.path = path]
           how == get_or_init(AVAILABLE_ENCODERS,
                              \E d \in Callers : calls[d].pc = "init")
       IN  calls' = [calls EXCEPT ![c] =
                       IF how = "ready"
                       THEN Returned(entered, AVAILABLE_ENCODERS[1])
                       ELSE [entered EXCEPT !.pc = how]]
    /\ UNCHANGED <<engines, AVAILABLE_ENCODERS, fetches, queue_vars,
                   snapshot_vars, compile_vars, classify_vars, estimate_vars, timers>>

\* the initialiser of the OnceLock finishes: the set is stored and the
\* caller goes on with it
Fetch(c) ==
    /\ calls[c].pc = "init"
    /\ LET encoders_set == fetch_available_encoders(engines[calls[c].path])
       IN  /\ AVAILABLE_ENCODERS' = <<encoders_set>>
           /\ calls' = [calls EXCEPT ![c] = Returned(calls[c], encoders_set)]
    /\ fetches' = fetches + 1
    /\ UNCHANGED <<engines, queue_vars, snapshot_vars, compile_vars,
                   classify_vars, estimate_vars, timers>>

\* a caller blocked in get_or_init goes on once the value is stored
Wake(c) ==
    /\ calls[c].pc = "wait"
    /\ AVAILABLE_ENCODERS # <<>>
    /\ calls' = [calls EXCEPT ![c] = Returned(calls[c], AVAILABLE_ENCODERS[1])]
    /\ UNCHANGED <<engines, AVAILABLE_ENCODERS, fetches, queue_vars,
                   snapshot_vars, compile_vars, classify_vars, estimate_vars, timers>>


---------------------------------------------------------------------------
(* The size estimator (transcoder/progress.rs) *)

\* An f64 is a record: k is "fin", "inf", "ninf" or "nan"; the v of a finite
\* value is the value in thousandths.  Bit rates are held in Mbps.
F64(v) == [k |-> "fin", v |-> v]
F64_INFINITY == [k |-> "inf", v |-> 0]
F64_NEG_INFINITY == [k |-> "ninf", v |-> 0]
F64_NAN == [k |-> "nan", v |-> 0]

f64_sign(a) ==
    CASE a.k = "inf"  -> 1
      [] a.k = "ninf" -> -1
      [] a.k = "fin"  -> IF a.v > 0 THEN 1 ELSE IF a.v < 0 THEN -1 ELSE 0

f64_signed_infinity(s) == IF s > 0 THEN F64_INFINITY ELSE F64_NEG_INFINITY

\* f64 * f64 (IEEE 754: 0 * inf is NaN)
f64_mul(a, b) ==
    IF a.k = "nan" \/ b.k = "nan" THEN F64_NAN
    ELSE IF a.k = "fin" /\ b.k = "fin" THEN F64(TruncDiv(a.v * b.v, 1000))
    ELSE IF f64_sign(a) * f64_sign(b) = 0 THEN F64_NAN
    ELSE f64_signed_infinity(f64_sign(a) * f64_sign(b))

\* f64 / f64 with a divisor that is never negative (IEEE 754: x / 0 is
\* infinite, 0 / 0 and inf / inf are NaN)
f64_div(a, b) ==
    IF a.k = "nan" \/ b.k = "nan" THEN F64_NAN
    ELSE IF a.k = "fin" /\ b.k = "fin"
         THEN IF b.v = 0
              THEN IF a.v = 0 THEN F64_NAN ELSE f64_signed_infinity(a.v)
              ELSE F64(TruncDiv(a.v * 1000, b.v))
    ELSE IF a.k = "fin" THEN F64(0)
    ELSE IF b.k = "fin" THEN a
    ELSE F64_NAN

\* f64 + f64 (IEEE 754: inf + -inf is NaN)
f64_add(a, b) ==
    IF a.k = "nan" \/ b.k = "nan" THEN F64_NAN
    ELSE IF a.k = "fin" /\ b.k = "fin" THEN F64(a.v + b.v)
    ELSE IF a.k = "fin" THEN b
    ELSE IF b.k = "fin" \/ a.k = b.k THEN a
    ELSE F64_NAN

\* f64 - f64
f64_sub(a, b) ==
    f64_add(a, CASE b.k = "fin"  -> F64(-b.v)
                 [] b.k = "inf"  -> F64_NEG_INFINITY
                 [] b.k = "ninf" -> F64_INFINITY
                 [] b.k = "nan"  -> F64_NAN)

RECURSIVE isqrt(_, _, _)
isqrt(n, lo, hi) ==
    IF lo >= hi THEN lo
    ELSE LET mid == (lo + hi + 1) \div 2
         IN  IF mid * mid <= n THEN isqrt(n, mid, hi) ELSE isqrt(n, lo, mid - 1)

\* f64::sqrt, for values below 2000
f64_sqrt(a) ==
    CASE a.k = "nan"  -> F64_NAN
      [] a.k = "ninf" -> F64_NAN
      [] a.k = "inf"  -> F64_INFINITY
      [] a.k = "fin"  -> IF a.v < 0 THEN F64_NAN
                         ELSE F64(isqrt(a.v * 1000, 0, 46340))

\* f64::clamp: a NaN stays a NaN
f64_clamp(a, lo, hi) ==
    CASE a.k = "nan"  -> F64_NAN
      [] a.k = "ninf" -> F64(lo)
      [] a.k = "inf"  -> F64(hi)
      [] a.k = "fin"  -> F64(Max(lo, Min(hi, a.v)))

\* f64::max with a finite argument: a NaN gives the argument
f64_max(a, other) ==
    CASE a.k = "nan"  -> F64(other)
      [] a.k = "ninf" -> F64(other)
      [] a.k = "inf"  -> F64_INFINITY
      [] a.k = "fin"  -> F64(Max(a.v, other))

\* f64::min with a finite argument: a NaN gives the argument
f64_min(a, other) ==
    CASE a.k = "nan"  -> F64(other)
      [] a.k = "inf"  -> F64(other)
      [] a.k = "ninf" -> F64_NEG_INFINITY
      [] a.k = "fin"  -> F64(Min(a.v, other))

\* f64::powf at the points the estimator reaches with the sample inputs,
\* in thousandths
powf(x, y) ==
    CASE x.k = "nan" -> F64_NAN
      [] x.k = "fin" /\ y = 0                -> F64(1000)
      [] x.k = "fin" /\ x.v = 0 /\ y > 0     -> F64(0)
      [] x.k = "fin" /\ x.v = 1000 /\ y # 0  -> F64(1000)
      [] x = F64(2000) /\ y = 1000           -> F64(2000)
      [] x = F64(2000) /\ y = -1000          -> F64(500)
      [] x = F64(2000) /\ y = 1090           -> F64(2130)
      [] x = F64(2000) /\ y = -1090          -> F64(469)
      [] x = F64(2000) /\ y = 1034           -> F64(2048)
      [] x = F64(2000) /\ y = -1034          -> F64(488)
      [] x = F64(2000) /\ y = 1200           -> F64(2297)
      [] x = F64(2000) /\ y = -1200          -> F64(435)
      [] x = F64(2000) /\ y = 900            -> F64(1866)
      [] x = F64(444) /\ y = 850             -> F64(502)
      [] x = F64(444) /\ y = 950             -> F64(463)
      [] x = F64(666) /\ y = 50              -> F64(980)

\* Option<T>: None is <<>>, Some(x) is <<x>>
unwrap_or(option, default) == IF option = <<>> THEN default ELSE option[1]

\* VideoMetadata::default
DefaultMetadata ==
    [resolution |-> <<>>, fps |-> <<>>, duration |-> <<>>,
     content_type |-> "Normal", source_video_bitrate |-> <<>>,
     source_audio_bitrate |-> <<>>, source_overall_bitrate |-> <<>>]

\* ContentType::motion_factor
motion_factor(content_type) ==
    CASE content_type = "Static"       -> F64(200)
      [] content_type = "ScreenRecord" -> F64(350)
      [] content_type = "Anime"        -> F64(500)
      [] content_type = "Normal"       -> F64(1000)
      [] content_type = "HighMotion"   -> F64(1600)

crf_divisor(video_codec) ==
    CASE video_codec = "H264" -> F64(6000)
      [] video_codec = "H265" -> F64(5500)
      [] video_codec = "Vp9"  -> F64(5800)
      [] video_codec = "Av1"  -> F64(5000)

crf_factor(s) ==
    powf(F64(2000),
         f64_div(F64((23 - s.crf) * 1000), crf_divisor(s.video_codec)).v)

preset_factor(preset) ==
    CASE preset = "Ultrafast" -> F64(1550)
      [] preset = "Fast"      -> F64(1180)
      [] preset = "Medium"    -> F64(1000)
      [] preset = "Slow"      -> F64(890)
      [] preset = "Veryslow"  -> F64(810)

hwaccel_factor(hwaccel, video_codec) ==
    CASE hwaccel = "Software"                       -> F64(1000)
      [] hwaccel = "Nvenc" /\ video_codec = "Av1"   -> F64(1100)
      [] hwaccel = "Nvenc" /\ video_codec # "Av1"   -> F64(1300)
      [] hwaccel = "Qsv"                            -> F64(1180)
      [] hwaccel = "Amf"                            -> F64(1200)
      [] hwaccel = "Auto" /\ video_codec = "Av1"    -> F64(1050)
      [] hwaccel = "Auto" /\ video_codec # "Av1"    -> F64(1150)

\* estimate_from_source_bitrate; source_video_bitrate in bps, the
\* resolutions as <<width, height>>, source_fps an f64
estimate_from_source_bitrate(s, md, source_video_bitrate, source_resolution, target_resolution, source_fps) ==
    LET source_pixels == F64(source_resolution[1] * source_resolution[2])
        target_pixels == F64(target_resolution[1] * target_resolution[2])
        resolution_factor ==
            IF source_pixels.v > 0
            THEN powf(f64_div(target_pixels, source_pixels), 850)
            ELSE F64(1000)
        typical_bitrate_mbps ==
            CASE s.video_codec = "H264" -> F64(8000)
              [] s.video_codec = "H265" -> F64(4000)
              [] s.video_codec = "Vp9"  -> F64(3600)
              [] s.video_codec = "Av1"  -> F64(2300)
        source_mbps == F64(source_video_bitrate \div 1000)
        normalized_source_mbps ==
            f64_mul(f64_mul(source_mbps,
                            f64_div(F64(1920 * 1080), source_pixels)),
                    f64_div(F64(30000), source_fps))
        complexity_factor ==
            f64_clamp(f64_sqrt(f64_div(normalized_source_mbps, F64(10000))),
                      500, 2000)
        base_target_mbps ==
            f64_mul(f64_mul(f64_mul(typical_bitrate_mbps, crf_factor(s)),
                            resolution_factor), complexity_factor)
        target_video_mbps ==
            f64_mul(f64_mul(f64_mul(base_target_mbps,
                                    preset_factor(s.preset)),
                            hwaccel_factor(s.hwaccel, s.video_codec)),
                    motion_factor(md.content_type))
        video_ratio == f64_div(target_video_mbps, source_mbps)
        source_audio_bitrate == unwrap_or(md.source_audio_bitrate, 192000)
        source_audio_mbps == F64(source_audio_bitrate \div 1000)
        target_audio_mbps ==
            CASE s.audio_codec = "Copy" -> source_audio_mbps
              [] s.audio_codec \in {"Aac", "Mp3"} -> F64(s.audio_bitrate)
              [] s.audio_codec = "Flac" -> f64_mul(source_audio_mbps, F64(2500))
        total_source_bitrate ==
            unwrap_or(md.source_overall_bitrate,
                      source_video_bitrate + source_audio_bitrate)
        audio_portion ==
            f64_div(source_audio_mbps, F64(total_source_bitrate \div 1000))
        video_portion == f64_sub(F64(1000), audio_portion)
        audio_ratio == f64_div(target_audio_mbps, source_audio_mbps)
        total_ratio == f64_add(f64_mul(video_portion, video_ratio),
                               f64_mul(audio_portion, audio_ratio))
    IN  f64_clamp(total_ratio, 30, 5000)

\* the audio size of estimate_from_compression_ratio, in MB
audio_size_mb(s, duration_hours) ==
    IF duration_hours.v > 0
    THEN CASE s.audio_codec = "Copy" -> F64(0)
           [] s.audio_codec = "Aac" ->
                f64_mul(IF s.audio_bitrate <= 128 THEN F64(8000)
                        ELSE IF s.audio_bitrate <= 192 THEN F64(12000)
                        ELSE IF s.audio_bitrate <= 256 THEN F64(18000)
                        ELSE F64(22000), duration_hours)
           [] s.audio_codec = "Mp3" ->
                f64_mul(IF s.audio_bitrate <= 128 THEN F64(9000)
                        ELSE IF s.audio_bitrate <= 192 THEN F64(13000)
                        ELSE IF s.audio_bitrate <= 256 THEN F64(19000)
                        ELSE F64(23000), duration_hours)
           [] s.audio_codec = "Flac" -> f64_mul(F64(100000), duration_hours)
    ELSE F64(0)

\* the audio share of estimate_from_compression_ratio (the same in both
\* branches of its final computation)
audio_factor(s) ==
    LET audio_ratio == F64(100)
        bitrate_ratio == f64_div(F64(s.audio_bitrate * 1000), F64(192000))
    IN  CASE s.audio_codec = "Copy" -> audio_ratio
          [] s.audio_codec = "Aac" ->
               f64_mul(f64_mul(audio_ratio, bitrate_ratio), F64(700))
          [] s.audio_codec = "Mp3" ->
               f64_mul(f64_mul(audio_ratio, bitrate_ratio), F64(800))
          [] s.audio_codec = "Flac" -> f64_mul(audio_ratio, F64(2000))

codec_efficiency(video_codec) ==
    CASE video_codec = "H264" -> F64(2000)
      [] video_codec = "H265" -> F64(1000)
      [] video_codec = "Vp9"  -> F64(900)
      [] video_codec = "Av1"  -> F64(570)

\* estimate_from_compression_ratio
estimate_from_compression_ratio(s, md, source_resolution, target_resolution, source_fps) ==
    LET source_pixels == F64(source_resolution[1] * source_resolution[2])
        target_pixels == F64(target_resolution[1] * target_resolution[2])
        resolution_factor ==
            IF source_pixels.v > 0 /\ target_pixels.v > 0
            THEN LET pixel_ratio == f64_div(target_pixels, source_pixels)
                     short_side_source ==
                         F64(1000 * Min(source_resolution[1],
                                        source_resolution[2]))
                     short_side_target ==
                         F64(1000 * Min(target_resolution[1],
                                        target_resolution[2]))
                     short_side_ratio ==
                         f64_div(short_side_target,
                                 f64_max(short_side_source, 1000))
                 IN  f64_mul(powf(pixel_ratio, 950),
                             powf(short_side_ratio, 50))
            ELSE F64(1000)
        fps_factor == powf(f64_div(source_fps, F64(30000)), 900)
        duration_hours ==
            f64_div(unwrap_or(md.duration, F64(0)), F64(3600000))
        video_compression ==
            f64_mul(f64_mul(f64_mul(f64_mul(f64_mul(f64_mul(
                crf_factor(s), resolution_factor), fps_factor),
                motion_factor(md.content_type)),
                codec_efficiency(s.video_codec)),
                preset_factor(s.preset)),
                hwaccel_factor(s.hwaccel, s.video_codec))
        video_ratio == f64_sub(F64(1000), F64(100))
        total == f64_add(f64_mul(video_ratio, video_compression),
                         audio_factor(s))
    IN  IF duration_hours.v > 0 /\ audio_size_mb(s, duration_hours).v > 0
        THEN f64_min(f64_max(total, 30), 5000)
        ELSE f64_min(f64_max(total, 30), 5000)

\* estimate_compression_ratio_advanced
estimate_compression_ratio_advanced(s, md) ==
    LET source_resolution == unwrap_or(md.resolution, <<1920, 1080>>)
        source_fps == unwrap_or(md.fps, F64(30000))
        dims == dimensions(s.resolution)
        target_resolution ==
            IF s.resolution.mode = "Original" THEN source_resolution
            ELSE IF dims[1] = 0 \/ dims[2] = 0 THEN source_resolution
            ELSE dims
    IN  IF md.source_video_bitrate # <<>>
        THEN estimate_from_source_bitrate(s, md, md.source_video_bitrate[1],
                 source_resolution, target_resolution, source_fps)
        ELSE estimate_from_compression_ratio(s, md, source_resolution,
                 target_resolution, source_fps)

\* estimate_compression_ratio
estimate_compression_ratio(s, source_resolution) ==
    estimate_compression_ratio_advanced(
        s, [DefaultMetadata EXCEPT !.resolution = <<source_resolution>>])

\* the settings and metadata the estimator is applied to
EstimateSettings ==
    {[DefaultSettings EXCEPT !.video_codec = vc, !.crf = q, !.preset = p,
                             !.hwaccel = hw, !.audio_codec = ac,
                             !.resolution = res] :
        vc \in VideoCodecs, q \in {17, 23, 29}, p \in {"Ultrafast", "Medium"},
        hw \in {"Software", "Nvenc"}, ac \in {"Copy", "Aac", "Flac"},
        res \in {Resolution("Original", 0, 0), Resolution("Hd720", 0, 0)}}

MetadataSamples ==
    [resolution : {<<>>, <<<<1920, 1080>>>>, <<<<0, 0>>>>},
     fps : {<<>>, <<F64(0)>>, <<F64(60000)>>},
     duration : {<<>>, <<F64(1800000)>>},
     content_type : {"Normal", "Static"},
     source_video_bitrate : {<<>>, <<0>>, <<8000000>>},
     source_audio_bitrate : {<<>>, <<0>>},
     source_overall_bitrate : {<<>>, <<0>>}]

NoRatio == [by |-> "none", value |-> F64(0)]

\* a caller of estimate_compression_ratio_advanced
EstimateAdvanced ==
    /\ ratio = NoRatio
    /\ ratio' = [by |-> "advanced",
                 value |-> estimate_compression_ratio_advanced(settings,
                                                               metadata)]
    /\ UNCHANGED <<metadata, queue_vars, snapshot_vars, compile_vars,
                   classify_vars, resolve_vars, timers>>

\* a caller of estimate_compression_ratio
Estimate ==
    /\ ratio = NoRatio
    /\ metadata.resolution # <<>>
    /\ ratio' = [by |-> "simple",
                 value |-> estimate_compression_ratio(settings,
                                                      metadata.resolution[1])]
    /\ UNCHANGED <<metadata, queue_vars, snapshot_vars, compile_vars,
                   classify_vars, resolve_vars, timers>>
---------------------------------------------------------------------------
(* The transcode run as a state machine *)

QueueIdle ==
    /\ files = <<>>
    /\ next_id = 0
    /\ selected_index = 0
    /\ current_job = 0
    /\ runs = [r \in RunIds |-> IdleRun]
    /\ cancel_mid = [r \in RunIds |-> 0]
    /\ timers = [r \in RunIds |-> FALSE]

SnapshotDefault ==
    /\ progress_permyriad = 0
    /\ elapsed_centisecs = 0
    /\ remaining_centisecs = RemainingUnknown
    /\ total_duration_centisecs = 0
    /\ current_time_centisecs = 0
    /\ cancelled = FALSE

CompileIdle ==
    /\ settings = DefaultSettings
    /\ encoders = [listed |-> {}, working |-> {}]
    /\ overflow_checks = FALSE
    /\ cmd = NoCmd

ClassifyIdle ==
    /\ stderr = ""
    /\ error = NoError

ResolveIdle ==
    /\ AVAILABLE_ENCODERS = <<>>
    /\ fetches = 0
    /\ calls = [c \in Callers |-> IdleCall]

EstimateIdle ==
    /\ metadata = DefaultMetadata
    /\ ratio = NoRatio

NoEngines ==
    engines = [p \in EnginePaths |->
                 [nvidia |-> FALSE, listed |-> {}, working |-> {}]]

Init ==
    /\ ffmpeg_path \in BOOLEAN
    /\ QueueIdle
    /\ SnapshotDefault
    /\ CompileIdle
    /\ ClassifyIdle
    /\ NoEngines
    /\ ResolveIdle
    /\ EstimateIdle

Next ==
    \/ \E d \in Durations : AddFiles(d)
    \/ \E i \in 1..MaxFiles : SelectRow(i)
    \/ RemoveSelected
    \/ ClearQueue
    \/ StartTranscode
    \/ CancelTranscode
    \/ \E r \in RunIds : RunBegin(r)
    \/ \E r \in RunIds : \E ok \in BOOLEAN : SpawnChild(r, ok)
    \/ \E r \in RunIds : \E st \in {"ok", "fail"} : KillChild(r, st)
    \/ \E r \in RunIds : SkipLine(r)
    \/ \E r \in RunIds : \E t \in TimeSamples : TimeLine(r, t)
    \/ \E r \in RunIds : \E e \in ElapsedSamples : ProgressLine(r, e)
    \/ \E r \in RunIds : \E st \in {"ok", "fail"} : ChildExit(r, st)
    \/ \E r \in RunIds : RunResult(r)

Spec == Init /\ [][Next]_vars

---------------------------------------------------------------------------
(* The transcode run with its refresh timers, under fair scheduling *)

NextLive ==
    \/ AddFiles(1600)
    \/ \E i \in 1..MaxFiles : SelectRow(i)
    \/ RemoveSelected
    \/ ClearQueue
    \/ StartTranscode
    \/ CancelTranscode
    \/ \E r \in RunIds : RunBegin(r)
    \/ \E r \in RunIds : \E ok \in BOOLEAN : SpawnChild(r, ok)
    \/ \E r \in RunIds : \E st \in {"ok", "fail"} : KillChild(r, st)
    \/ \E r \in RunIds : SkipLine(r)
    \/ \E r \in RunIds : TimeLine(r, 8000)
    \/ \E r \in RunIds : ProgressLine(r, 100)
    \/ \E r \in RunIds : \E st \in {"ok", "fail"} : ChildExit(r, st)
    \/ \E r \in RunIds : RunResult(r)
    \/ \E r \in RunIds : TimerTick(r)

\* the executor polls a spawned or woken task, the pool runs a queued
\* closure, every engine subprocess exits or is killed, and a timer fires
Fairness ==
    \A r \in RunIds :
       /\ WF_vars(RunBegin(r))
       /\ WF_vars(\E ok \in BOOLEAN : SpawnChild(r, ok))
       /\ WF_vars(\E st \in {"ok", "fail"} :
                     ChildExit(r, st) \/ KillChild(r, st))
       /\ WF_vars(RunResult(r))
       /\ WF_vars(TimerTick(r))

SpecLive == Init /\ [][NextLive]_vars /\ Fairness

---------------------------------------------------------------------------
(* The snapshot alone *)

InitSnapshot ==
    /\ ffmpeg_path = FALSE
    /\ QueueIdle
    /\ SnapshotDefault
    /\ CompileIdle
    /\ ClassifyIdle
    /\ NoEngines
    /\ ResolveIdle
    /\ EstimateIdle

NextSnapshot ==
    \/ \E p \in ProgressSamples : SetProgress(p)
    \/ \E t \in SnapTimeSamples : UpdateProgressFromTime(t)
    \/ \E d \in SnapTotalSamples : SetTotalDurationSecs(d)
    \/ \E e \in SnapElapsedSamples : SetElapsedSecs(e)
    \/ \E s \in SnapRemainingSamples : SetRemainingSecs(s)
    \/ ResetProgress
    \/ Cancel

SpecSnapshot == InitSnapshot /\ [][NextSnapshot]_vars


---------------------------------------------------------------------------
(* The command compiler alone *)

InitCompile ==
    /\ ffmpeg_path = TRUE
    /\ QueueIdle
    /\ SnapshotDefault
    /\ settings \in SettingsSamples
    /\ encoders \in EncoderSamples
    /\ overflow_checks \in BOOLEAN
    /\ cmd = NoCmd
    /\ ClassifyIdle
    /\ NoEngines
    /\ ResolveIdle
    /\ EstimateIdle

NextCompile == BuildFfmpegArgs

SpecCompile == InitCompile /\ [][NextCompile]_vars


---------------------------------------------------------------------------
(* The stderr classifier alone *)

InitClassify ==
    /\ ffmpeg_path = TRUE
    /\ QueueIdle
    /\ SnapshotDefault
    /\ CompileIdle
    /\ ClassifyIdle
    /\ NoEngines
    /\ ResolveIdle
    /\ EstimateIdle

NextClassify ==
    \/ \E line \in StderrLines : EngineStderr(line)
    \/ ParseStderr

SpecClassify == InitClassify /\ [][NextClassify]_vars


---------------------------------------------------------------------------
(* The encoder resolution alone *)

InitResolve ==
    /\ ffmpeg_path = TRUE
    /\ QueueIdle
    /\ SnapshotDefault
    /\ CompileIdle
    /\ ClassifyIdle
    /\ engines \in [EnginePaths -> EngineSamples]
    /\ \A p, q \in EnginePaths : engines[p].nvidia = engines[q].nvidia
    /\ ResolveIdle
    /\ EstimateIdle

NextResolve ==
    \/ \E c \in Callers : \E video_codec \in VideoCodecs :
          \E hwaccel \in HwAccelTypes : \E path \in EnginePaths :
             Call(c, video_codec, hwaccel, path)
    \/ \E c \in Callers : Fetch(c)
    \/ \E c \in Callers : Wake(c)

SpecResolve == InitResolve /\ [][NextResolve]_vars


---------------------------------------------------------------------------
(* The size estimator alone *)

InitEstimate ==
    /\ ffmpeg_path = TRUE
    /\ QueueIdle
    /\ SnapshotDefault
    /\ settings \in EstimateSettings
    /\ encoders = [listed |-> {}, working |-> {}]
    /\ overflow_checks = FALSE
    /\ cmd = NoCmd
    /\ ClassifyIdle
    /\ NoEngines
    /\ ResolveIdle
    /\ metadata \in MetadataSamples
    /\ ratio = NoRatio

NextEstimate ==
    \/ EstimateAdvanced
    \/ Estimate

SpecEstimate == InitEstimate /\ [][NextEstimate]_vars

---------------------------------------------------------------------------
(* Properties of the transcode run *)

\* C1: once cancel() is called while the subprocess of a file is alive, the
\* parser's next move on that file ends the subprocess, and the task then
\* marks the file at its index Cancelled and leaves the loop, so that no
\* later file is started.
C1_CancelStopsRun ==
    [][\A r \in RunIds :
         (cancel_mid[r] # 0 /\ runs'[r] # runs[r]) =>
            /\ runs[r].pc = "reading" => runs'[r].pc = "exited"
            /\ runs[r].pc = "exited" =>
                 /\ runs'[r].pc = "done"
                 /\ files' = SetStatus(files, runs[r].index, "Cancelled")]_vars

\* C2: at any moment at most one task is inside start_transcode's loop and
\* at most one engine subprocess is alive.
C2_SingleJobInFlight ==
    Cardinality(Loops) <= 1 /\ Cardinality(Procs) <= 1

\* C3: while one task works on a file, no step of its parser lowers the
\* fraction stored in the snapshot.
C3_ProgressMonotonic ==
    [][\A r \in RunIds :
         (Loops = {r} /\ Loops' = {r}
            /\ runs[r].pc = "reading" /\ runs'[r].pc = "reading")
         => progress_permyriad' >= progress_permyriad]_vars

\* C4: the fraction read by get_progress is within [0, 1] (as a permyriad:
\* within 0..10000) after any sequence of set_progress,
\* update_progress_from_time and reset.
C4_ProgressInRange ==
    get_progress >= 0 /\ get_progress <= 10000

\* a state in which update_progress_from_time was given a time beyond the
\* total and the stored fraction is exactly 1
C4_Witness ==
    /\ total_duration_centisecs > 0
    /\ current_time_centisecs > total_duration_centisecs
    /\ progress_permyriad = 10000

\* C5: after every update made by the parser for a valid record, the
\* remaining time is None when the fraction is 0 or 1 and is a non-negative
\* value otherwise.
C5_RemainingMatchesFraction ==
    [][\A r \in RunIds :
         (Loops = {r} /\ Loops' = {r}
            /\ runs[r].pc = "reading" /\ runs'[r].pc = "reading"
            /\ is_valid(runs[r].pending) /\ runs'[r].pending = NoTime)
         => IF progress_permyriad' \in {0, 10000}
            THEN remaining_centisecs' = RemainingUnknown
            ELSE remaining_centisecs' >= 0]_vars

\* C13: when the subprocess of a file has failed or could not be spawned
\* and no cancel is pending, the task marks that file, and no other, Error
\* and goes on with the next file of its snapshot, one launch per file; after
\* the last file it leaves the loop.
C13_FailureContinues ==
    [][\A r \in RunIds :
         (/\ runs[r].pc = "exited"
          /\ runs'[r] # runs[r]
          /\ runs[r].result \in {"fail", "spawn_err"}
          /\ ~cancelled)
         => /\ \A k \in 1..Len(files') :
                 files'[k].id = CurFile(r).id => files'[k].status = "Error"
            /\ \A k \in 1..Len(files') :
                 (files'[k].status = "Error" /\ files[k].status # "Error")
                    => files'[k].id = CurFile(r).id
            /\ IF runs[r].index + 1 < Len(runs[r].snap)
               THEN /\ runs'[r].pc = "launching"
                    /\ runs'[r].index = runs[r].index + 1
               ELSE runs'[r].pc = "done"]_vars

\* C14: once cancel() has been called while the subprocess of a file is
\* alive, the next line its parser reads ends the subprocess, and no step of
\* that parser changes the snapshot.
C14_CancelCheckedPerLine ==
    [][\A r \in RunIds :
         (/\ cancel_mid[r] = runs[r].index + 1
          /\ runs[r].pc = "reading"
          /\ runs'[r] # runs[r])
         => /\ runs'[r].pc = "exited"
            /\ UNCHANGED <<progress_permyriad, elapsed_centisecs,
                           remaining_centisecs, total_duration_centisecs,
                           current_time_centisecs>>]_vars

\* C26: while a task is inside its loop and the cancel flag is set, no step
\* clears the flag unless that task leaves the loop with it, and the task
\* does not go on to a later file: the per-file reset erases no pending
\* cancellation.
C26_CancelNeverLost ==
    [][\A r \in RunIds :
         (cancelled /\ runs[r].pc \in {"launching", "reading", "exited"})
         => /\ cancelled' \/ runs'[r].pc = "done"
            /\ runs'[r].pc # "done" => runs'[r].index = runs[r].index]_vars

\* C28: a step of a task changes the status of no queue entry but that of
\* the file the task is working on, and the outcome of a file is recorded
\* on that file's entry wherever it is in the queue.
C28_StatusOnOwnEntry ==
    [][\A r \in RunIds :
         (runs'[r] # runs[r] /\ runs[r].pc \in {"spawned", "exited"})
         => /\ \A k \in 1..Len(files) :
                 files'[k].status # files[k].status
                   => /\ k <= Len(runs[r].snap)
                      /\ files[k].id = runs[r].snap[k].id
            /\ runs[r].pc = "exited"
                 => \A k \in 1..Len(files) :
                       files[k].id = CurFile(r).id
                         => files'[k].status \in {"Completed", "Error",
                                                  "Cancelled"}]_vars

\* C29: when a task examines the result of a file, the file becomes
\* Cancelled if the cancel flag is set, whatever the exit status; else
\* Completed if the subprocess exited successfully; else, for a subprocess
\* that exited without success, Error with the classifier's user message.
\* No file becomes Completed in any other way.
C29_ResultStatus ==
    [][/\ \A r \in RunIds :
            (runs[r].pc = "exited" /\ runs'[r] # runs[r])
            => \A k \in 1..Len(files) :
                  files[k].id = CurFile(r).id
                    => IF cancelled
                       THEN files'[k].status = "Cancelled"
                       ELSE IF runs[r].result = "ok"
                       THEN files'[k].status = "Completed"
                       ELSE /\ files'[k].status = "Error"
                            /\ runs[r].result = "fail"
                                 => files'[k].message = "format_user_message"
       /\ \A k \in 1..Len(files) :
            (/\ k <= Len(files')
             /\ files'[k].id = files[k].id
             /\ files'[k].status = "Completed"
             /\ files[k].status # "Completed")
            => \E r \in RunIds :
                  /\ runs[r].pc = "exited" /\ runs'[r] # runs[r]
                  /\ files[k].id = CurFile(r).id
                  /\ runs[r].result = "ok"
                  /\ ~cancelled]_vars

\* every run has ended: no task is in its loop, the current job is cleared,
\* no file has the status Processing and no timer loop is alive
Quiescent ==
    /\ Loops = {}
    /\ current_job = 0
    /\ \A k \in 1..Len(files) : files[k].status # "Processing"
    /\ \A r \in RunIds : ~timers[r]

\* C30: under fair scheduling, with every engine subprocess exiting or
\* being killed, a started run leads to a state in which every run has
\* ended: current job cleared, no file Processing, timer loops over.
C30_RunsEnd == (Loops # {}) ~> Quiescent

\* the media-time fields of the snapshot, which only resets and completed
\* records write
progress_fields ==
    <<progress_permyriad, elapsed_centisecs, remaining_centisecs,
      total_duration_centisecs, current_time_centisecs>>

frame_of(ms) == ms \div 40

\* the frame count of the sample clips, which are 16 s long whether or not
\* the probe could read their duration
SampleTotalFrames == frame_of(16000)

\* C16: when a parser completes a valid record, the fraction it stores is the
\* media time divided by the total duration when the duration is known, and
\* the ratio of the frames processed to the total frames when it is not.
C16_FrameRatioFallback ==
    [][\A r \in RunIds :
         (/\ runs[r].pc = "reading"
          /\ is_valid(runs[r].pending)
          /\ runs'[r].pc = "reading"
          /\ runs'[r].pending = NoTime)
         => progress_permyriad' =
               filter_progress(frame_of(runs[r].pending[1]), SampleTotalFrames,
                               runs[r].pending[1],
                               total_duration_centisecs)]_vars

---------------------------------------------------------------------------
(* Properties of the command compiler *)

\* number of positions of list a that hold x
Count(a, x) == Cardinality({i \in DOMAIN a : a[i] = x})

\* first position of list a that holds x (0 when there is none)
FirstIndex(a, x) ==
    IF Count(a, x) = 0 THEN 0
    ELSE CHOOSE i \in DOMAIN a : a[i] = x /\ \A j \in 1..(i - 1) : a[j] # x

\* C6: for every settings value the compiler returns, without panicking, a
\* non-empty argument list holding exactly one "-c:v" and exactly one "-c:a".
C6_CompileTotal ==
    cmd.state # "none" =>
        /\ cmd.state = "args"
        /\ Len(cmd.args) > 0
        /\ Count(cmd.args, "-c:v") = 1
        /\ Count(cmd.args, "-c:a") = 1

\* the scale filter expected for a resolution mode
ExpectedScale(resolution) ==
    CASE resolution.mode = "Uhd4K"   -> "scale=3840:2160"
      [] resolution.mode = "Fhd1080" -> "scale=1920:1080"
      [] resolution.mode = "Hd720"   -> "scale=1280:720"
      [] resolution.mode = "Sd480"   -> "scale=854:480"
      [] resolution.mode = "Custom"  ->
           "scale=" \o ToString(resolution.w) \o ":" \o ToString(resolution.h)

\* C7: a returned argument list holds no "-vf" when the resolution mode is
\* Original, and otherwise exactly one "-vf", followed by "scale=W:H" with
\* the width and height of the mode.
C7_ScaleFilter ==
    cmd.state = "args" =>
        IF settings.resolution.mode = "Original"
        THEN Count(cmd.args, "-vf") = 0
        ELSE /\ Count(cmd.args, "-vf") = 1
             /\ cmd.args[FirstIndex(cmd.args, "-vf") + 1]
                  = ExpectedScale(settings.resolution)

\* a list compiled for a named mode other than Original, with its filter
C7_Witness ==
    /\ cmd.state = "args"
    /\ settings.resolution.mode = "Hd720"
    /\ Count(cmd.args, "-vf") = 1

\* C8: a returned argument list is, in this order: the acceleration
\* arguments (if any), "-i" and the input path, the video block starting
\* with "-c:v", the audio block starting with "-c:a", "-progress" "pipe:1",
\* "-stats_period" "0.5", "-y", and the output path as the last argument.
C8_ArgumentOrder ==
    cmd.state = "args" =>
        LET a  == cmd.args
            n  == Len(a)
            i  == FirstIndex(a, "-i")
            v  == FirstIndex(a, "-c:v")
            au == FirstIndex(a, "-c:a")
        IN  /\ i \in {1, 3}
            /\ i = 3 => a[1] = "-hwaccel"
            /\ Count(a, "-hwaccel") = (IF i = 3 THEN 1 ELSE 0)
            /\ a[i + 1] = to_string_lossy(InputPath)
            /\ v = i + 2
            /\ au > v
            /\ n - 5 - au \in {2, 4}
            /\ SubSeq(a, n - 5, n - 1)
                 = <<"-progress", "pipe:1", "-stats_period", "0.5", "-y">>
            /\ a[n] = to_string_lossy(Job(settings).output_path)

\* a list compiled with acceleration arguments in front of the input
C8_Witness ==
    /\ cmd.state = "args"
    /\ cmd.args[1] = "-hwaccel"
    /\ FirstIndex(cmd.args, "-i") = 3

---------------------------------------------------------------------------
(* Properties of the stderr classifier *)

\* the kinds of the filesystem, permission and disk-space checks
FileKinds ==
    {"InputNotFound", "InputCorrupted", "PermissionDenied", "DiskFull",
     "OutputWriteError"}

\* the text matches one of those checks
is_file_error(l) ==
    \/ is_input_not_found(l) \/ is_input_corrupted(l)
    \/ is_permission_denied(l) \/ is_disk_full(l) \/ is_output_write_error(l)

\* the vendors whose signature the text matches
Vendors(l) ==
    {v \in {"Intel QSV", "NVIDIA NVENC", "AMD AMF"} :
        \/ v = "Intel QSV" /\ is_qsv_error(l)
        \/ v = "NVIDIA NVENC" /\ is_nvenc_error(l)
        \/ v = "AMD AMF" /\ is_amf_error(l)}

\* the text matches no check at all
is_unmatched(l) ==
    ~(\/ is_encoder_not_supported(l) \/ is_vendor_error(l)
      \/ is_hwaccel_error(l) \/ is_decoder_not_supported(l)
      \/ is_file_error(l) \/ is_out_of_memory(l)
      \/ is_invalid_codec_option(l))

\* C9 (as amended): the checks are applied in the order encoder-not-found,
\* vendor-specific hardware signatures, generic hardware keywords,
\* decoder-not-found, filesystem/permission/disk-space, and Unknown last;
\* a text matching checks of two groups gets the kind of the earlier one.
C9_RuleOrder ==
    error # NoError =>
        LET l == to_lowercase(stderr)
            enc == is_encoder_not_supported(l)
            ven == is_vendor_error(l)
            gen == is_hwaccel_error(l)
            dec == is_decoder_not_supported(l)
        IN  /\ enc => error.kind = "EncoderNotSupported"
            /\ ~enc /\ ven =>
                 error.kind = "HwAccelNotAvailable" /\ error.payload \in Vendors(l)
            /\ ~enc /\ ~ven /\ gen => error.kind = "HwAccelNotAvailable"
            /\ ~enc /\ ~ven /\ ~gen /\ dec => error.kind = "DecoderNotSupported"
            /\ ~enc /\ ~ven /\ ~gen /\ ~dec /\ is_file_error(l) =>
                 error.kind \in FileKinds
            /\ is_unmatched(l) => error.kind = "Unknown"

\* a text matching both a vendor signature and an encoder-not-found pattern
\* has been classified by the encoder check
C9_Witness ==
    /\ error.kind = "EncoderNotSupported"
    /\ is_vendor_error(to_lowercase(stderr))
    /\ is_encoder_not_supported(to_lowercase(stderr))

\* C9 (as stated): the checks are applied in the order vendor-specific
\* hardware signatures, generic hardware keywords, encoder/decoder-not-found,
\* filesystem/permission/disk-space, and Unknown last; a text matching
\* checks of two groups gets the kind of the earlier one.
C9_ClaimedRuleOrder ==
    error # NoError =>
        LET l == to_lowercase(stderr)
            ven == is_vendor_error(l)
            gen == is_hwaccel_error(l)
            cod == is_encoder_not_supported(l) \/ is_decoder_not_supported(l)
        IN  /\ ven =>
                 error.kind = "HwAccelNotAvailable" /\ error.payload \in Vendors(l)
            /\ ~ven /\ gen => error.kind = "HwAccelNotAvailable"
            /\ ~ven /\ ~gen /\ cod =>
                 error.kind \in {"EncoderNotSupported", "DecoderNotSupported"}
            /\ ~ven /\ ~gen /\ ~cod /\ is_file_error(l) =>
                 error.kind \in FileKinds
            /\ is_unmatched(l) => error.kind = "Unknown"

\* the first line of the text that mentions "encoder" (<<>> without one)
FirstEncoderLine(text) ==
    LET ls == lines(text)
        hits == {i \in 1..Len(ls) : contains(to_lowercase(ls[i]), "encoder")}
    IN  IF hits = {} THEN <<>>
        ELSE <<ls[CHOOSE i \in hits : \A j \in hits : i <= j]>>

\* C10: a text containing "unknown encoder" in any letter case is classified
\* EncoderNotSupported; when the first line that mentions "encoder" holds a
\* word between single quotes, the kind carries that word.
C10_UnknownEncoder ==
    error # NoError /\ contains(to_lowercase(stderr), "unknown encoder") =>
        /\ error.kind = "EncoderNotSupported"
        /\ quoted(FirstEncoderLine(stderr)[1]) # <<>> =>
             error.payload = quoted(FirstEncoderLine(stderr)[1])[1]

\* "Unknown encoder 'h264_nvenc'" followed by another line with a quoted
\* word has been classified
C10_Witness ==
    /\ error.kind = "EncoderNotSupported"
    /\ error.payload = "h264_nvenc"
    /\ stderr = "Unknown encoder 'h264_nvenc'" \o "\n" \o "Unknown decoder 'hevc_cuvid'"

\* the signatures that belong to NVENC alone
has_nvenc_signature(l) ==
    \/ contains(l, "cannot load nvcuda.dll")
    \/ contains(l, "cannot load nvencodeapi")
    \/ contains(l, "no nvenc capable devices found")

\* C11: a text holding one of the NVENC signatures "cannot load nvcuda.dll",
\* "cannot load nvencodeapi", "no nvenc capable devices found" in any letter
\* case, and matching neither the encoder check nor the QSV check that come
\* first, is classified HwAccelNotAvailable with the name "NVIDIA NVENC".
C11_NvencSignature ==
    LET l == to_lowercase(stderr)
    IN  (/\ error # NoError
         /\ has_nvenc_signature(l)
         /\ ~is_encoder_not_supported(l)
         /\ ~is_qsv_error(l))
        => error.kind = "HwAccelNotAvailable" /\ error.payload = "NVIDIA NVENC"

\* "No NVENC capable devices found" together with a line of a later check
\* has been classified as an NVENC failure
C11_Witness ==
    /\ error.kind = "HwAccelNotAvailable"
    /\ error.payload = "NVIDIA NVENC"
    /\ stderr = "Permission denied" \o "\n" \o "No NVENC capable devices found"

\* the text matches one of the encoder, hardware or decoder checks
is_codec_or_hardware_error(l) ==
    \/ is_encoder_not_supported(l) \/ is_vendor_error(l)
    \/ is_hwaccel_error(l) \/ is_decoder_not_supported(l)

\* C12: among the texts matching none of the encoder, hardware and decoder
\* checks, one holding "no such file", "does not exist" or "file not found"
\* is classified InputNotFound, and one holding "permission denied" or
\* "access denied" and no input-not-found or input-corruption pattern is
\* classified PermissionDenied.
C12_InputAndPermission ==
    LET l == to_lowercase(stderr)
        missing == \/ contains(l, "no such file")
                   \/ contains(l, "does not exist")
                   \/ contains(l, "file not found")
        corrupted == \/ contains(l, "invalid data found")
                     \/ contains(l, "corrupt")
                     \/ contains(l, "moov atom not found")
                     \/ contains(l, "end of file") /\ contains(l, "invalid")
        denied == contains(l, "permission denied") \/ contains(l, "access denied")
    IN  (error # NoError /\ ~is_codec_or_hardware_error(l)) =>
            /\ missing => error.kind = "InputNotFound"
            /\ (denied /\ ~missing /\ ~corrupted) => error.kind = "PermissionDenied"

\* a text holding both an input-not-found and a permission pattern has been
\* classified InputNotFound
C12_Witness ==
    /\ error.kind = "InputNotFound"
    /\ stderr = "Access denied" \o "\n" \o "Path does not exist"

\* the value that follows the first occurrence of a flag in an argument
\* list, "" when the flag does not occur
RECURSIVE flag_value(_, _)
flag_value(args, flag) ==
    IF Len(args) < 2 THEN ""
    ELSE IF args[1] = flag THEN args[2]
    ELSE flag_value(Tail(args), flag)

\* the codec an encoder name stands for
codec_of_encoder(encoder) ==
    CASE encoder \in {"libx264", "h264_nvenc", "h264_qsv", "h264_amf"} -> "H264"
      [] encoder \in {"libx265", "hevc_nvenc", "hevc_qsv", "hevc_amf"} -> "H265"
      [] encoder \in {"libvpx-vp9", "vp9_qsv"} -> "Vp9"
      [] encoder \in {"libsvtav1", "libaom-av1", "av1_nvenc", "av1_qsv",
                      "av1_amf"} -> "Av1"
      [] OTHER -> ""

\* the value of the quality flag of an argument list: the first of the
\* flags the encoder families use for it that occurs
quality_of_args(args) ==
    LET flags == <<"-crf", "-cq", "-qp", "-global_quality", "-q", "-qp_i">>
        found == {i \in 1..Len(flags) : flag_value(args, flags[i]) # ""}
    IN  IF found = {} THEN ""
        ELSE flag_value(args, flags[CHOOSE i \in found :
                                      \A j \in found : i <= j])

\* the container the extension of a path stands for
container_of_path(path) ==
    LET ext == SubSeq(path, Len(path) - 2, Len(path))
    IN  CASE ext = "mp4" -> "Mp4"
          [] ext = "mkv" -> "Mkv"
          [] OTHER -> ""

\* codec, crf and container as read back from an argument list
recovered(args) ==
    [video_codec |-> codec_of_encoder(flag_value(args, "-c:v")),
     crf |-> quality_of_args(args),
     container |-> container_of_path(args[Len(args)])]

inactive_variants(s) ==
    (IF s.rate_control \in {"Cbr", "Vbr"}
     THEN {[s EXCEPT !.crf = q] : q \in CrfSamples}
     ELSE {[s EXCEPT !.target_bitrate = t, !.max_bitrate = m] :
              t \in {5000, 8000}, m \in {10000, 12000}})
    \cup (IF s.rate_control = "Cbr"
          THEN {[s EXCEPT !.max_bitrate = m] : m \in {10000, 12000}}
          ELSE {})

\* C25: the outcome of compiling a settings value is the outcome of
\* compiling every settings value that differs from it only in fields of an
\* inactive rate-control mode.
C25_InactiveFieldsIgnored ==
    cmd # NoCmd
    => \A s2 \in inactive_variants(settings) :
          build_ffmpeg_args_with_path(Job(s2), encoders, overflow_checks) = cmd

\* a CBR job has been compiled for libx264, whose ceiling is the target
C25_Witness ==
    /\ cmd.state = "args"
    /\ settings.rate_control = "Cbr"
    /\ flag_value(cmd.args, "-c:v") = "libx264"
    /\ flag_value(cmd.args, "-maxrate") = Kbps(settings.target_bitrate)
    /\ \E s2 \in inactive_variants(settings) :
          s2.max_bitrate # settings.max_bitrate

---------------------------------------------------------------------------
(* Properties of the encoder resolution *)

\* the verdict of the usability test a finished call made of an encoder:
\* membership in the set the call got, then the trial run with its engine
usable_for(call, encoder) ==
    test_encoder_availability(encoder,
                              [listed |-> call.seen,
                               working |-> engines[call.path].working])

\* the first category, in the order NVENC, QSV, AMF, whose encoder for the
\* call's codec is a hardware encoder that passes the usability test;
\* Software when there is none
first_usable_category(call) ==
    LET ok(t) == /\ encoder_name(call.video_codec, t) \in HardwareEncoders
                 /\ usable_for(call, encoder_name(call.video_codec, t))
    IN  IF ok("Nvenc") THEN "Nvenc"
        ELSE IF ok("Qsv") THEN "Qsv"
        ELSE IF ok("Amf") THEN "Amf"
        ELSE "Software"

\* C17: a call made with the preference Auto returns the first category, in
\* the order NVENC > QSV > AMF > Software, whose encoder is usable.
C17_AutoPriority ==
    \A c \in Callers :
        (calls[c].pc = "done" /\ calls[c].hwaccel = "Auto")
        => calls[c].result.hwaccel = first_usable_category(calls[c])

\* the software encoder the fallback list of the call's codec yields: the
\* first usable candidate, and the first candidate when none is usable
expected_fallback(call) ==
    CASE call.video_codec = "H264" -> "libx264"
      [] call.video_codec = "H265" -> "libx265"
      [] call.video_codec = "Vp9"  -> "libvpx-vp9"
      [] call.video_codec = "Av1"  ->
           IF usable_for(call, "libsvtav1") THEN "libsvtav1"
           ELSE IF usable_for(call, "libaom-av1") THEN "libaom-av1"
           ELSE "libsvtav1"

\* C18: when the preferred encoder of a call fails the usability test, the
\* call returns the first usable encoder of the codec's software fallback
\* list, or the first of the list when none is usable, with the category
\* Software.
C18_SoftwareFallback ==
    \A c \in Callers :
        (/\ calls[c].pc = "done"
         /\ ~usable_for(calls[c], encoder_name(calls[c].video_codec,
                                               calls[c].resolved)))
        => calls[c].result = [encoder |-> expected_fallback(calls[c]),
                              hwaccel |-> "Software"]

\* an AV1 call with NVENC has fallen back to the second candidate
C18_Witness ==
    \E c \in Callers :
        /\ calls[c].pc = "done"
        /\ calls[c].video_codec = "Av1"
        /\ calls[c].resolved = "Nvenc"
        /\ ~usable_for(calls[c], "libsvtav1")
        /\ calls[c].result = [encoder |-> "libaom-av1", hwaccel |-> "Software"]

\* C19: a call returns the encoder and category that follow from its codec,
\* its preference and the listing and trial runs of the engine it names,
\* whatever calls were made before it.
C19_Deterministic ==
    \A c \in Callers :
        calls[c].pc = "done"
        => calls[c].result =
              get_available_encoder(
                  calls[c].video_codec,
                  resolve_auto(calls[c].hwaccel, engines[calls[c].path]),
                  engines[calls[c].path])

C27_CategoryMatchesEncoder ==
    \A c \in Callers :
        (/\ calls[c].pc = "done"
         /\ calls[c].result.encoder \in known_software_encoders)
        => calls[c].result.hwaccel = "Software"

---------------------------------------------------------------------------
(* Properties of the size estimator *)

\* C22: for any settings and any metadata, degenerate values included, the
\* ratio returned by estimate_compression_ratio_advanced is a number within
\* the clamp bounds 0.03 and 5.0, on both paths.
C22_RatioWithinBounds ==
    ratio.by = "advanced"
      => ratio.value.k = "fin" /\ ratio.value.v >= 30 /\ ratio.value.v <= 5000

\* C23: for CRF 23, H.264, software encoding, the medium preset and the
\* original resolution, with a 1080p source at 30 fps of normal content,
\* the estimated ratio lies between 0.85 and 1.15.
C23_BaselineNearOne ==
    (/\ ratio.by = "simple"
     /\ settings.crf = 23 /\ settings.video_codec = "H264"
     /\ settings.hwaccel = "Software" /\ settings.preset = "Medium"
     /\ settings.resolution.mode = "Original"
     /\ metadata.resolution = <<<<1920, 1080>>>>)
      => ratio.value.k = "fin" /\ ratio.value.v >= 850
         /\ ratio.value.v <= 1150

============================================================================
